---- MODULE Spec2Model ----
(***************************************************************************)
(* A model of the plague-sim transport core: the Population accounting    *)
(* type, the PortGraph, the SimulationGeography aggregate, the            *)
(* RandomTransportAllocator and the Simulation tick (update()).           *)
(*                                                                         *)
(* Specifications:                                                         *)
(*   SpecGraph : PortGraph::new() followed by any sequence of add_port,    *)
(*               add_directed_connection, add_undirected_connection,       *)
(*               get_dest_ports and get_open_dest_ports.                   *)
(*   SpecPop   : calls of the pure Population operations emigrate, scale   *)
(*               and scale_truncate.                                       *)
(*   SpecWord  : Population's +, emigrate, get_total and get_alive on      *)
(*               populations near the largest 32-bit count.                *)
(*   SpecRandom: calls of Population::new_random and of                    *)
(*               math_utils::probabilistic_round.                          *)
(*   SpecRegionID : threads constructing regions (RegionID::new).          *)
(*   SpecRegion: Region::add_port and Region::get_port.                    *)
(*   SpecAlloc : calls of RandomTransportAllocator::calculate_transport.   *)
(*   SpecGeo   : a constructed SimulationGeography under add_population    *)
(*               and subtract_population calls.                            *)
(*   Spec      : Simulation::new followed by any sequence of update().     *)
(*   SpecClose : a SimulationGeography under close_port and the            *)
(*               destination queries.                                      *)
(*   SpecAll   : a Simulation under update() and the geography calls a     *)
(*               client makes on its geography.                            *)
(***************************************************************************)
EXTENDS Integers, Sequences, FiniteSets, TLC

VARIABLES
    graph,                  \* PortGraph.port_nodes: PortID -> PortNode {port, dests}
    regions,                \* SimulationGeography.regions: Vec<Region>
    ongoing_transport,      \* Simulation.ongoing_transport: Vec<InProgressJob>
    statistics,             \* Simulation.statistics: MediatorStatistics
    transport_probability,  \* RandomTransportAllocator.transport_probability, in halves
    debug_assertions,       \* whether the build compiles debug_assert! in (cfg(debug_assertions))
    aborted,                \* a panic! has unwound the running call; nothing runs afterwards
    CURRENT_REGION_ID,      \* the process-wide AtomicU32 RegionID::new counts with
    constructing,           \* per thread: the id RegionID::new gave it for the Region
                            \* it is constructing, -1 when it constructs none
    ret                     \* the last call made and what it returned

vars == <<graph, regions, ongoing_transport, statistics, transport_probability,
          debug_assertions, aborted, CURRENT_REGION_ID, constructing, ret>>

geoVars == <<graph, regions>>
idVars == <<CURRENT_REGION_ID, constructing>>
simVars == <<ongoing_transport, statistics, transport_probability, debug_assertions, aborted,
             idVars>>

(***************************************************************************)
(* Bounds of the model.                                                    *)
(***************************************************************************)
\* port ids offered to the graph operations are 0..MaxPortID
MaxPortID == 2
\* the graph operations are called while the graph holds fewer than MaxEdges edges
MaxEdges == 3
\* largest total of a population a region is constructed with
MaxTotal == 2
\* largest total of a population passed to add_population / subtract_population
MaxAmount == 1
\* the unsigned integers of new_random are 0..WordMax: u32 with its maximum
\* 2^32 - 1 scaled down, arithmetic wrapping modulo WordMax + 1
WordMax == 5
\* the number of threads that construct regions
MaxThreads == 2
\* Region::add_port is called on a region that has fewer than MaxPorts ports
MaxPorts == 2

(***************************************************************************)
(* Population (population.rs)                                              *)
(***************************************************************************)
Population(h, i, d, r) == [healthy |-> h, infected |-> i, dead |-> d, recovered |-> r]

new_healthy(initial_pop) == Population(initial_pop, 0, 0, 0)

\* impl Add for Population
Add(self, rhs) ==
    Population(self.healthy + rhs.healthy,
               self.infected + rhs.infected,
               self.dead + rhs.dead,
               self.recovered + rhs.recovered)

get_alive(self) == self.healthy + self.infected + self.recovered

get_total(self) == self.dead + self.healthy + self.recovered + self.infected

\* A Result<Population, String>: pop is meaningful when ok, err names the
\* message (by the category it complains about, or the missing region) when not.
Ok(p) == [ok |-> TRUE, pop |-> p, err |-> ""]
Err(e) == [ok |-> FALSE, pop |-> new_healthy(0), err |-> e]

emigrate_healthy_only(self, group) ==
    IF group.healthy > self.healthy THEN Err("healthy")
    ELSE Ok(Population(self.healthy - group.healthy,
                       IF group.infected > self.infected THEN 0 ELSE self.infected - group.infected,
                       IF group.dead > self.dead THEN 0 ELSE self.dead - group.dead,
                       IF group.recovered > self.recovered THEN 0 ELSE self.recovered - group.recovered))

\* Population::emigrate: the if / else-if chain tests healthy, dead, recovered,
\* infected in that order; self is borrowed immutably.
emigrate(self, group) ==
    IF group.healthy > self.healthy THEN Err("healthy")
    ELSE IF group.dead > self.dead THEN Err("dead")
    ELSE IF group.recovered > self.recovered THEN Err("recovered")
    ELSE IF group.infected > self.infected THEN Err("infected")
    ELSE Ok(Population(self.healthy - group.healthy,
                       self.infected - group.infected,
                       self.dead - group.dead,
                       self.recovered - group.recovered))

\* f64::round of the non-negative quotient num / den: half away from zero.
RoundNearest(num, den) == (2 * num + den) \div (2 * den)

\* `as u32` of the non-negative quotient num / den: truncation.
Truncate(num, den) == num \div den

scale_half_down(self, num, den) ==
    Population((2 * num * self.healthy + den - 1) \div (2 * den),
               (2 * num * self.infected + den - 1) \div (2 * den),
               (2 * num * self.dead + den - 1) \div (2 * den),
               (2 * num * self.recovered + den - 1) \div (2 * den))

\* Population::scale(scalar) with scalar = num / den. The code multiplies in
\* f64; the f64 product rounds exactly as the rational one does for the
\* quotients magnitude / total of region totals up to 21 and for the
\* scalars and counts of Factors and TestPopulation.
scale(self, num, den) ==
    Population(RoundNearest(num * self.healthy, den),
               RoundNearest(num * self.infected, den),
               RoundNearest(num * self.dead, den),
               RoundNearest(num * self.recovered, den))

\* Population::scale_truncate(scalar) with scalar = num / den.
scale_truncate(self, num, den) ==
    Population(Truncate(num * self.healthy, den),
               Truncate(num * self.infected, den),
               Truncate(num * self.dead, den),
               Truncate(num * self.recovered, den))

(***************************************************************************)
(* Port and PortGraph (region.rs, transportation_graph.rs)                 *)
(***************************************************************************)
\* Port::new: a port is created open.
Port(id, region, capacity, pos) ==
    [id |-> id, capacity |-> capacity, closed |-> FALSE, region |-> region, pos |-> pos]

\* Port::is_closed
is_closed(port) == port.closed

\* Port::close_port: self.closed.replace(false)
port_close_port(port) == [port EXCEPT !.closed = FALSE]

\* A port as it comes out of a deserialized document, which carries the
\* closed flag of every port along with its other fields.
LoadedPort(port, closed) == [port EXCEPT !.closed = closed]

\* PortNode::new
PortNode(port) == [port |-> port, dests |-> <<>>]

\* PortGraph::new
NewPortGraph == <<>>

in_graph(g, id) == id \in DOMAIN g

Contains(s, x) == \E k \in 1..Len(s) : s[k] = x

\* The result of a graph operation: Ok(()) or Err, and the graph afterwards.
GraphResult(ok, g) == [ok |-> ok, graph |-> g]

add_port_overwrites(g, port) ==
    GraphResult(~in_graph(g, port.id),
                [k \in DOMAIN g \cup {port.id} |->
                    IF k = port.id THEN PortNode(port) ELSE g[k]])

\* PortGraph::add_port
add_port(g, port) ==
    IF in_graph(g, port.id)
    THEN GraphResult(FALSE, g)
    ELSE GraphResult(TRUE, [k \in DOMAIN g \cup {port.id} |->
                              IF k = port.id THEN PortNode(port) ELSE g[k]])

\* start_node.dests.push(end)
PushDest(g, start, end) == [g EXCEPT ![start].dests = Append(@, end)]

add_directed_connection_no_dup_check(g, start, end) ==
    IF start = end THEN GraphResult(FALSE, g)
    ELSE IF ~in_graph(g, start) \/ ~in_graph(g, end) THEN GraphResult(FALSE, g)
    ELSE GraphResult(TRUE, PushDest(g, start, end))

add_directed_connection_both_ways(g, start, end) ==
    IF start = end THEN GraphResult(FALSE, g)
    ELSE IF ~in_graph(g, start) \/ ~in_graph(g, end) THEN GraphResult(FALSE, g)
    ELSE IF Contains(g[start].dests, end) THEN GraphResult(FALSE, g)
    ELSE GraphResult(TRUE, PushDest(PushDest(g, start, end), end, start))

\* PortGraph::add_directed_connection
add_directed_connection(g, start, end) ==
    IF start = end THEN GraphResult(FALSE, g)
    ELSE IF ~in_graph(g, start) \/ ~in_graph(g, end) THEN GraphResult(FALSE, g)
    ELSE IF Contains(g[start].dests, end) THEN GraphResult(FALSE, g)
    ELSE GraphResult(TRUE, PushDest(g, start, end))

add_undirected_connection_checks_late(g, port1, port2) ==
    IF port1 = port2 THEN GraphResult(FALSE, g)
    ELSE IF ~in_graph(g, port1) \/ ~in_graph(g, port2) THEN GraphResult(FALSE, g)
    ELSE IF Contains(g[port1].dests, port2) THEN GraphResult(FALSE, g)
    ELSE IF Contains(g[port2].dests, port1) THEN GraphResult(FALSE, PushDest(g, port1, port2))
    ELSE GraphResult(TRUE, PushDest(PushDest(g, port1, port2), port2, port1))

add_undirected_connection_one_way(g, port1, port2) ==
    IF port1 = port2 THEN GraphResult(FALSE, g)
    ELSE IF ~in_graph(g, port1) \/ ~in_graph(g, port2) THEN GraphResult(FALSE, g)
    ELSE IF Contains(g[port1].dests, port2) THEN GraphResult(FALSE, g)
    ELSE IF Contains(g[port2].dests, port1) THEN GraphResult(FALSE, g)
    ELSE GraphResult(TRUE, PushDest(g, port1, port2))

\* PortGraph::add_undirected_connection: port2 -> port1 is pushed first, then
\* port1 -> port2; both existence checks come before either push.
add_undirected_connection(g, port1, port2) ==
    IF port1 = port2 THEN GraphResult(FALSE, g)
    ELSE IF ~in_graph(g, port1) \/ ~in_graph(g, port2) THEN GraphResult(FALSE, g)
    ELSE IF Contains(g[port1].dests, port2) THEN GraphResult(FALSE, g)
    ELSE IF Contains(g[port2].dests, port1) THEN GraphResult(FALSE, g)
    ELSE GraphResult(TRUE, PushDest(PushDest(g, port2, port1), port1, port2))

\* PortGraph::get_port
get_port(g, id) == g[id].port

get_dest_ports_open_only(g, id) ==
    SelectSeq([k \in 1..Len(g[id].dests) |-> g[g[id].dests[k]].port],
              LAMBDA port : ~is_closed(port))

\* PortGraph::get_dest_ports, for a registered id: the ports of node.dests, in order.
get_dest_ports(g, id) == [k \in 1..Len(g[id].dests) |-> get_port(g, g[id].dests[k])]

\* PortGraph::get_open_dest_ports, for a registered id: the loop fills
\* open_dests, and the function returns Some(dests).
get_open_dest_ports(g, id) == get_dest_ports(g, id)

RECURSIVE SumLens(_, _)
SumLens(g, ids) ==
    IF ids = {} THEN 0
    ELSE LET k == CHOOSE x \in ids : TRUE
         IN Len(g[k].dests) + SumLens(g, ids \ {k})

EdgeCount(g) == SumLens(g, DOMAIN g)

(***************************************************************************)
(* The calls of SpecGraph.                                                 *)
(***************************************************************************)
PortIDs == 0..MaxPortID

\* Ports offered to add_port: one port per id made by region 0, the one with
\* id 1 loaded closed, and a second port with id 0 made by region 1
\* (Region::add_port does not look at the ids other regions have used).
GraphPortInputs ==
    {LoadedPort(Port(id, 0, 1, <<0, 0>>), id = 1) : id \in PortIDs} \cup {Port(0, 1, 1, <<0, 0>>)}

NoPop == new_healthy(0)

\* The last call: its name, its id arguments a and b (-1 where it has none), its
\* population argument, whether it returned Ok, and the population returned.
Returned(op, a, b, arg, ok, pop) ==
    [op |-> op, a |-> a, b |-> b, arg |-> arg, ok |-> ok, pop |-> pop]

NoCall == Returned("new", -1, -1, NoPop, TRUE, NoPop)

\* A call that returns Option<Vec<&Port>>: ok is is_some(), ports the list.
ReturnedPorts(op, a, ok, ports) ==
    [op |-> op, a |-> a, b |-> -1, arg |-> NoPop, ok |-> ok, pop |-> NoPop, ports |-> ports]

Threads == 1..MaxThreads

\* The counter of a process in which the regions of the state have been
\* constructed (one RegionID::new each) and no thread is constructing one.
InitRegionID ==
    /\ CURRENT_REGION_ID = Len(regions)
    /\ constructing = [t \in Threads |-> -1]

InitSim ==
    /\ ongoing_transport = <<>>
    /\ statistics = [in_transit |-> NoPop, region_population |-> NoPop]
    /\ transport_probability = 0
    /\ debug_assertions = FALSE
    /\ aborted = FALSE
    /\ InitRegionID

InitGraph ==
    /\ graph = NewPortGraph
    /\ regions = <<>>
    /\ InitSim
    /\ ret = NoCall

AddPortCall(port) ==
    /\ LET r == add_port(graph, port)
       IN /\ graph' = r.graph
          /\ ret' = Returned("add_port", port.id, port.region, NoPop, r.ok, NoPop)
    /\ UNCHANGED <<regions, simVars>>

AddDirectedConnectionCall(start, end) ==
    /\ EdgeCount(graph) < MaxEdges
    /\ LET r == add_directed_connection(graph, start, end)
       IN /\ graph' = r.graph
          /\ ret' = Returned("add_directed_connection", start, end, NoPop, r.ok, NoPop)
    /\ UNCHANGED <<regions, simVars>>

AddUndirectedConnectionCall(port1, port2) ==
    /\ EdgeCount(graph) < MaxEdges
    /\ LET r == add_undirected_connection(graph, port1, port2)
       IN /\ graph' = r.graph
          /\ ret' = Returned("add_undirected_connection", port1, port2, NoPop, r.ok, NoPop)
    /\ UNCHANGED <<regions, simVars>>

\* PortGraph::get_dest_ports: None for an id that is not in the graph
GetDestPortsCall(id) ==
    /\ ret' = IF ~in_graph(graph, id)
              THEN ReturnedPorts("get_dest_ports", id, FALSE, <<>>)
              ELSE ReturnedPorts("get_dest_ports", id, TRUE, get_dest_ports(graph, id))
    /\ UNCHANGED <<geoVars, simVars>>

\* PortGraph::get_open_dest_ports: None for an id that is not in the graph
GetOpenDestPortsCall(id) ==
    /\ ret' = IF ~in_graph(graph, id)
              THEN ReturnedPorts("get_open_dest_ports", id, FALSE, <<>>)
              ELSE ReturnedPorts("get_open_dest_ports", id, TRUE, get_open_dest_ports(graph, id))
    /\ UNCHANGED <<geoVars, simVars>>

AddPort == \E port \in GraphPortInputs : AddPortCall(port)
GetDestPorts == \E id \in PortIDs : GetDestPortsCall(id)
GetOpenDestPorts == \E id \in PortIDs : GetOpenDestPortsCall(id)
AddDirectedConnection == \E start, end \in PortIDs : AddDirectedConnectionCall(start, end)
AddUndirectedConnection == \E port1, port2 \in PortIDs : AddUndirectedConnectionCall(port1, port2)

NextGraph ==
    \/ AddPort
    \/ AddDirectedConnection
    \/ AddUndirectedConnection
    \/ GetDestPorts
    \/ GetOpenDestPorts

SpecGraph == InitGraph /\ [][NextGraph]_vars

(***************************************************************************)
(* Region and SimulationGeography (region.rs, simulation_geography.rs)     *)
(***************************************************************************)
\* Region::new: no ports yet. The id comes from the process-wide counter.
Region(id, name, population) ==
    [id |-> id, name |-> name, population |-> population, ports |-> <<>>]

region_add_port_unowned(region, port_id, capacity, pos) ==
    [region EXCEPT !.ports = Append(@, Port(port_id, 0, capacity, pos))]

\* Region::add_port: the new port carries the region's id and is pushed.
region_add_port(region, port_id, capacity, pos) ==
    [region EXCEPT !.ports = Append(@, Port(port_id, region.id, capacity, pos))]

\* regions.iter().find(|region| region.id() == region_id): the index of the
\* first region with that id, 0 when there is none (get_region gives None).
RegionIndex(regs, region_id) ==
    IF \E k \in 1..Len(regs) : regs[k].id = region_id
    THEN CHOOSE k \in 1..Len(regs) :
            /\ regs[k].id = region_id
            /\ \A j \in 1..(k - 1) : regs[j].id # region_id
    ELSE 0

\* SimulationGeography::get_region(..).is_some()
has_region(regs, region_id) == RegionIndex(regs, region_id) # 0

\* SimulationGeography::get_population, for an id that is present
get_population(regs, region_id) == regs[RegionIndex(regs, region_id)].population

\* SimulationGeography::get_region_ids
get_region_ids(regs) == [k \in 1..Len(regs) |-> regs[k].id]

set_region_population_new_region(regs, region_id, population) ==
    [k \in 1..Len(regs) |->
        IF regs[k].id = region_id
        THEN Region(regs[k].id, regs[k].name, population)
        ELSE regs[k]]

\* PopulationType::set_population on the region found by get_region_mut
set_region_population(regs, region_id, population) ==
    [regs EXCEPT ![RegionIndex(regs, region_id)].population = population]

\* What a geography call gives: the Result it returns, the regions afterwards,
\* and whether a debug assertion inside it panicked.
GeoResult(res, regs, panicked) ==
    [ok |-> res.ok, pop |-> res.pop, err |-> res.err, regions |-> regs, panicked |-> panicked]

\* SimulationGeography::set_population
set_population(regs, region_id, population) ==
    IF has_region(regs, region_id)
    THEN GeoResult(Ok(NoPop), set_region_population(regs, region_id, population), FALSE)
    ELSE GeoResult(Err("region"), regs, FALSE)

add_population_stores_result(regs, region_id, population) ==
    IF has_region(regs, region_id)
    THEN LET resulting_pop == Add(get_population(regs, region_id), population)
         IN GeoResult(Ok(resulting_pop),
                      set_region_population(regs, region_id, resulting_pop), FALSE)
    ELSE GeoResult(Err("region"), regs, FALSE)

\* SimulationGeography::add_population: resulting_pop is computed from a copy
\* of the region's population and returned; the region is not written.
add_population(regs, region_id, population) ==
    IF has_region(regs, region_id)
    THEN LET resulting_pop == Add(get_population(regs, region_id), population)
         IN GeoResult(Ok(resulting_pop), regs, FALSE)
    ELSE GeoResult(Err("region"), regs, FALSE)

subtract_population_all_regions(regs, debug, region_id, population) ==
    IF has_region(regs, region_id)
    THEN LET resulting_pop == emigrate(get_population(regs, region_id), population)
         IN IF resulting_pop.ok
            THEN GeoResult(resulting_pop,
                           [k \in 1..Len(regs) |-> [regs[k] EXCEPT !.population = resulting_pop.pop]],
                           FALSE)
            ELSE GeoResult(resulting_pop, regs, FALSE)
    ELSE GeoResult(Err("region"), regs, FALSE)

subtract_population_writes_on_error(regs, debug, region_id, population) ==
    IF has_region(regs, region_id)
    THEN LET resulting_pop == emigrate(get_population(regs, region_id), population)
         IN IF resulting_pop.ok
            THEN GeoResult(resulting_pop,
                           set_region_population(regs, region_id, resulting_pop.pop), FALSE)
            ELSE GeoResult(resulting_pop,
                           set_region_population(regs, region_id, resulting_pop.pop), FALSE)
    ELSE GeoResult(Err("region"), regs, FALSE)

\* SimulationGeography::subtract_population. The debug_assert_eq! compares the
\* total before with the new total plus the total removed, in debug builds.
subtract_population(regs, debug, region_id, population) ==
    IF has_region(regs, region_id)
    THEN LET start_pop == get_total(get_population(regs, region_id))
             resulting_pop == emigrate(get_population(regs, region_id), population)
         IN IF resulting_pop.ok
            THEN IF debug /\ start_pop # get_total(resulting_pop.pop) + get_total(population)
                 THEN GeoResult(resulting_pop, regs, TRUE)
                 ELSE GeoResult(resulting_pop,
                                set_region_population(regs, region_id, resulting_pop.pop),
                                FALSE)
            ELSE GeoResult(resulting_pop, regs, FALSE)
    ELSE GeoResult(Err("region"), regs, FALSE)

(***************************************************************************)
(* Construction of a geography, as the tests and the configuration do it:  *)
(* regions first, then a graph that registers a copy of every region port, *)
(* then the connections.                                                   *)
(***************************************************************************)
RECURSIVE AddPortsToGraph(_, _)
AddPortsToGraph(g, ports) ==
    IF ports = <<>> THEN g
    ELSE AddPortsToGraph(add_port(g, Head(ports)).graph, Tail(ports))

RECURSIVE AddRegionsToGraph(_, _)
AddRegionsToGraph(g, regs) ==
    IF regs = <<>> THEN g
    ELSE AddRegionsToGraph(AddPortsToGraph(g, Head(regs).ports), Tail(regs))

RECURSIVE AddConnections(_, _)
AddConnections(g, edges) ==
    IF edges = <<>> THEN g
    ELSE AddConnections(add_directed_connection(g, Head(edges)[1], Head(edges)[2]).graph,
                        Tail(edges))

\* Two regions: region 0 owns ports 0 and 1 (same position), region 1 owns
\* port 2, one unit away.
BuildRegionsAt(pop0, pop1, pos) ==
    << region_add_port(region_add_port(Region(0, "A", pop0), 0, 1, <<0, 0>>), 1, 2, <<0, 0>>),
       region_add_port(Region(1, "B", pop1), 2, 2, pos) >>

BuildRegions(pop0, pop1) == BuildRegionsAt(pop0, pop1, <<1, 1>>)

\* Where the port of region B may lie: about 1.41 and about 2.83 away from
\* the ports of region A.
PortPositions == {<<1, 1>>, <<2, 2>>}

\* The connection lists a geography is built with: a ring through all ports
\* (an intra-region leg included), and inter-region legs only.
RingEdges == << <<0, 1>>, <<1, 2>>, <<2, 0>> >>

InterRegionEdges == << <<0, 2>>, <<1, 2>>, <<2, 0>>, <<2, 1>> >>

EdgeLists == {RingEdges, InterRegionEdges}

BuildGraph(regs, edges) == AddConnections(AddRegionsToGraph(NewPortGraph, regs), edges)

\* Populations drawn as inputs: every split of up to n people over the categories.
PopulationsUpTo(n) ==
    {Population(h, i, d, r) : h \in 0..n, i \in 0..n, d \in 0..n, r \in 0..n}

PopulationsOfTotalUpTo(n) == {p \in PopulationsUpTo(n) : get_total(p) <= n}

(***************************************************************************)
(* SpecPop: Population::emigrate, scale and scale_truncate called on a      *)
(* region's population, as region.population.population().emigrate(group).  *)
(***************************************************************************)
\* The population of the tests scale and scale_truncate
TestPopulation == Population(150, 75, 111, 2)

\* The scalars scale and scale_truncate are called with, as <<num, den>>
Factors == {<<0, 1>>, <<1, 4>>, <<1, 3>>, <<1, 2>>, <<2, 3>>, <<3, 4>>, <<1, 1>>}

InitPop ==
    /\ graph = NewPortGraph
    /\ \E p \in PopulationsOfTotalUpTo(MaxTotal) \cup {TestPopulation} :
          regions = <<Region(0, "A", p)>>
    /\ InitSim
    /\ ret = NoCall

EmigrateCall(group) ==
    /\ LET r == emigrate(regions[1].population, group)
       IN ret' = Returned("emigrate", -1, -1, group, r.ok, r.pop)
    /\ UNCHANGED <<geoVars, simVars>>

Emigrate == \E group \in PopulationsOfTotalUpTo(MaxTotal) : EmigrateCall(group)

\* ret.a / ret.b is the scalar, ret.pop the population returned.
Scale ==
    /\ \E f \in Factors :
          ret' = Returned("scale", f[1], f[2], NoPop, TRUE,
                          scale(regions[1].population, f[1], f[2]))
    /\ UNCHANGED <<geoVars, simVars>>

ScaleTruncate ==
    /\ \E f \in Factors :
          ret' = Returned("scale_truncate", f[1], f[2], NoPop, TRUE,
                          scale_truncate(regions[1].population, f[1], f[2]))
    /\ UNCHANGED <<geoVars, simVars>>

NextPop == Emigrate \/ Scale \/ ScaleTruncate

SpecPop == InitPop /\ [][NextPop]_vars

(***************************************************************************)
(* SpecWord: impl Add, emigrate, get_total and get_alive on populations     *)
(* whose heads count up to the largest 32-bit value (WordMax here). A sum   *)
(* beyond it panics in a build with overflow checks and wraps around in one *)
(* without.                                                                 *)
(***************************************************************************)
WordPopulations ==
    {Population(h, i, d, r) : h \in {0, 1, WordMax}, i \in {0, WordMax},
                              d \in {0, 1, WordMax}, r \in {0, WordMax}}

\* impl Add for Population, in u32: the population returned by a build
\* without overflow checks, and whether one of the four sums overflows.
AddWord(self, rhs) ==
    [pop |-> Population((self.healthy + rhs.healthy) % (WordMax + 1),
                        (self.infected + rhs.infected) % (WordMax + 1),
                        (self.dead + rhs.dead) % (WordMax + 1),
                        (self.recovered + rhs.recovered) % (WordMax + 1)),
     overflowed |-> \/ self.healthy + rhs.healthy > WordMax
                    \/ self.infected + rhs.infected > WordMax
                    \/ self.dead + rhs.dead > WordMax
                    \/ self.recovered + rhs.recovered > WordMax]

\* Population::get_alive, in u32
get_alive_word(self) ==
    [val |-> (self.healthy + self.infected + self.recovered) % (WordMax + 1),
     overflowed |-> self.healthy + self.infected + self.recovered > WordMax]

\* Population::get_total, in u32
get_total_word(self) ==
    [val |-> (self.dead + self.healthy + self.recovered + self.infected) % (WordMax + 1),
     overflowed |-> self.dead + self.healthy + self.recovered + self.infected > WordMax]

InitWord ==
    /\ graph = NewPortGraph
    /\ \E p \in WordPopulations : regions = <<Region(0, "A", p)>>
    /\ ongoing_transport = <<>>
    /\ statistics = [in_transit |-> NoPop, region_population |-> NoPop]
    /\ transport_probability = 0
    /\ debug_assertions \in BOOLEAN
    /\ aborted = FALSE
    /\ InitRegionID
    /\ ret = NoCall

\* regions[1].population + rhs. ret.arg is rhs, ret.pop the sum, ret.ok
\* whether no category overflowed.
AddCall ==
    /\ ~aborted
    /\ \E rhs \in WordPopulations :
          LET sum == AddWord(regions[1].population, rhs)
          IN /\ aborted' = (debug_assertions /\ sum.overflowed)
             /\ ret' = Returned("add", -1, -1, rhs, ~sum.overflowed, sum.pop)
    /\ UNCHANGED <<geoVars, ongoing_transport, statistics, transport_probability,
                   debug_assertions, idVars>>

EmigrateWord ==
    /\ ~aborted
    /\ \E group \in WordPopulations : EmigrateCall(group)

\* regions[1].population.get_total(). ret.val is the number returned, ret.ok
\* whether the sum did not overflow.
GetTotal ==
    /\ ~aborted
    /\ LET total == get_total_word(regions[1].population)
       IN /\ aborted' = (debug_assertions /\ total.overflowed)
          /\ ret' = [op |-> "get_total", a |-> -1, b |-> -1, arg |-> NoPop,
                     ok |-> ~total.overflowed, pop |-> NoPop, val |-> total.val]
    /\ UNCHANGED <<geoVars, ongoing_transport, statistics, transport_probability,
                   debug_assertions, idVars>>

\* regions[1].population.get_alive()
GetAlive ==
    /\ ~aborted
    /\ LET alive == get_alive_word(regions[1].population)
       IN /\ aborted' = (debug_assertions /\ alive.overflowed)
          /\ ret' = [op |-> "get_alive", a |-> -1, b |-> -1, arg |-> NoPop,
                     ok |-> ~alive.overflowed, pop |-> NoPop, val |-> alive.val]
    /\ UNCHANGED <<geoVars, ongoing_transport, statistics, transport_probability,
                   debug_assertions, idVars>>

NextWord == AddCall \/ EmigrateWord \/ GetTotal \/ GetAlive

SpecWord == InitWord /\ [][NextWord]_vars

(***************************************************************************)
(* SpecRandom: Population::new_random called with a size and the three      *)
(* values get_random() returns to it, and probabilistic_round called with   *)
(* an f32 and the value get_random() returns to it.                         *)
(***************************************************************************)
\* (((pool + 1) as f64) * get_random()) as u32, with get_random() = r / (WordMax + 1):
\* pool + 1 wraps to 0 when pool is the largest unsigned value; the product
\* is below pool + 1 and the cast cuts its fraction off.
random_share(pool, r) == (((pool + 1) % (WordMax + 1)) * r) \div (WordMax + 1)

\* Whether pool + 1 overflows.
add_one_overflows(pool) == pool = WordMax

\* Population::new_random. A build with overflow checks (the debug profile)
\* panics at an overflowing pool + 1; a build without them wraps. The three
\* subtractions cannot underflow: a share is at most its pool.
new_random(size, debug, r1, r2, r3) ==
    LET healthy == random_share(size, r1)
        after_healthy == size - healthy
        dead == random_share(after_healthy, r2)
        after_dead == after_healthy - dead
        infected == random_share(after_dead, r3)
        recovered == after_dead - infected
        overflowed == \/ add_one_overflows(size)
                      \/ add_one_overflows(after_healthy)
                      \/ add_one_overflows(after_dead)
    IN IF debug /\ overflowed
       THEN [pop |-> NoPop, overflowed |-> TRUE, panicked |-> TRUE]
       ELSE [pop |-> Population(healthy, infected, dead, recovered),
             overflowed |-> overflowed,
             panicked |-> debug /\ healthy + dead + recovered + infected # size]

InitRandom ==
    /\ graph = NewPortGraph
    /\ regions = <<>>
    /\ ongoing_transport = <<>>
    /\ statistics = [in_transit |-> NoPop, region_population |-> NoPop]
    /\ transport_probability = 0
    /\ debug_assertions \in BOOLEAN
    /\ aborted = FALSE
    /\ InitRegionID
    /\ ret = NoCall

\* ret.a is the size asked for, ret.pop the population returned, ret.ok
\* whether the call returned without an intermediate overflow.
NewRandom ==
    /\ ~aborted
    /\ \E size \in 0..WordMax, r1 \in 0..WordMax, r2 \in 0..WordMax, r3 \in 0..WordMax :
          LET res == new_random(size, debug_assertions, r1, r2, r3)
          IN /\ aborted' = res.panicked
             /\ ret' = Returned("new_random", size, -1, NoPop,
                                ~res.overflowed /\ ~res.panicked, res.pop)
    /\ UNCHANGED <<geoVars, ongoing_transport, statistics, transport_probability,
                   debug_assertions,
                   idVars>>

\* The f32 values, scaled down with the 32-bit word: NaN, the two infinities
\* and the numbers of a grid, held in halves with their sign (so that -0 is
\* a value of its own). The grid has every half below WordMax - 3 and then
\* only WordMax - 3, WordMax + 1 and WordMax + 5, as f32 has fractions only
\* below 2^23 and steps of 256 just below 2^32 (= WordMax + 1 here): WordMax
\* itself is not an f32.
F32Values ==
    LET magnitudes == 0..(2 * (WordMax - 3))
                      \cup {2 * (WordMax + 1), 2 * (WordMax + 5)}
    IN  [class : {"num"}, negative : BOOLEAN, halves : magnitudes]
        \cup [class : {"inf"}, negative : BOOLEAN, halves : {0}]
        \cup [class : {"nan"}, negative : {FALSE}, halves : {0}]

\* The f32 nearest to a number given in halves: what a literal or an
\* `as f32` conversion gives.
f32_nearest(h) ==
    LET mag == IF h < 0 THEN -h ELSE h
        Dist(v) == IF v.halves < mag THEN mag - v.halves ELSE v.halves - mag
        grid == {v \in F32Values : v.class = "num" /\ v.negative = (h < 0)}
    IN  CHOOSE v \in grid :
            \A w \in grid : Dist(v) < Dist(w) \/ (Dist(v) = Dist(w) /\ v.halves <= w.halves)

\* PartialOrd for f32: no ordering when either side is NaN, and -0 equals 0.
f32_partial_cmp(x, y) ==
    LET Key(v) == IF v.class = "inf"
                  THEN (IF v.negative THEN -1 ELSE 1) * (2 * (WordMax + 5) + 1)
                  ELSE (IF v.negative THEN -1 ELSE 1) * v.halves
    IN  IF x.class = "nan" \/ y.class = "nan" THEN "none"
        ELSE IF Key(x) < Key(y) THEN "less"
        ELSE IF Key(x) = Key(y) THEN "equal"
        ELSE "greater"

\* x as u32: the fraction is cut off, NaN gives 0 and a value outside the
\* range gives the nearest end of it.
f32_as_u32(x) ==
    IF x.class = "nan" THEN 0
    ELSE IF x.negative THEN 0
    ELSE IF x.class = "inf" THEN WordMax
    ELSE IF x.halves \div 2 > WordMax THEN WordMax
    ELSE x.halves \div 2

\* x - y in f32: NaN when either is NaN, x when x is infinite.
f32_sub(x, y) ==
    IF x.class = "nan" \/ y.class = "nan" THEN [class |-> "nan", negative |-> FALSE, halves |-> 0]
    ELSE IF x.class = "inf" THEN x
    ELSE IF y.class = "inf" THEN [y EXCEPT !.negative = ~y.negative]
    ELSE f32_nearest((IF x.negative THEN -x.halves ELSE x.halves)
                     - (IF y.negative THEN -y.halves ELSE y.halves))

\* probabilistic_round(x), given the value r of get_random() as f32. The
\* bound of the test is the f32 literal 4294967295.0; rounded_down + 1 is a
\* u32 addition.
probabilistic_round(x, r, debug) ==
    IF \/ f32_partial_cmp(x, f32_nearest(0)) = "less"
       \/ f32_partial_cmp(x, f32_nearest(2 * WordMax)) \in {"greater", "equal"}
    THEN [ok |-> FALSE, val |-> 0, overflowed |-> FALSE, panicked |-> FALSE]
    ELSE LET rounded_down == f32_as_u32(x)
             fraction_part == f32_sub(x, f32_nearest(2 * rounded_down))
         IN  IF f32_partial_cmp(r, fraction_part) = "less"
             THEN [ok |-> TRUE, val |-> (rounded_down + 1) % (WordMax + 1),
                   overflowed |-> add_one_overflows(rounded_down),
                   panicked |-> debug /\ add_one_overflows(rounded_down)]
             ELSE [ok |-> TRUE, val |-> rounded_down, overflowed |-> FALSE,
                   panicked |-> FALSE]

\* A call of probabilistic_round. get_random() is an f64 in [0, 1); as f32
\* it can be 1. ret.x is the argument, ret.val the number returned, ret.ok
\* whether the call returned Ok.
ProbabilisticRound ==
    /\ ~aborted
    /\ \E x \in F32Values, r \in {f32_nearest(0), f32_nearest(1), f32_nearest(2)} :
          LET res == probabilistic_round(x, r, debug_assertions)
          IN /\ aborted' = res.panicked
             /\ ret' = [op |-> "probabilistic_round", a |-> -1, b |-> -1, arg |-> NoPop,
                        ok |-> res.ok /\ ~res.panicked, pop |-> NoPop,
                        x |-> x, val |-> res.val, overflowed |-> res.overflowed]
    /\ UNCHANGED <<geoVars, ongoing_transport, statistics, transport_probability,
                   debug_assertions,
                   idVars>>

NextRandom ==
    \/ NewRandom
    \/ ProbabilisticRound

SpecRandom == InitRandom /\ [][NextRandom]_vars

(***************************************************************************)
(* SpecRegionID: threads constructing regions with Region::new or           *)
(* Region::new_custom: RegionID::new, then the Region value.                *)
(***************************************************************************)
\* CURRENT_REGION_ID.fetch_add(1, SeqCst): one atomic step that returns the
\* old value and stores the sum, which wraps around at the largest value.
fetch_add(counter) == [val |-> counter, stored |-> (counter + 1) % (WordMax + 1)]

InitRegion ==
    /\ graph = NewPortGraph
    /\ regions = <<>>
    /\ InitSim
    /\ ret = NoCall

\* let id = RegionID::new(), by thread t. The process constructs at most
\* WordMax + 2 regions.
RegionIDNew(t) ==
    /\ constructing[t] = -1
    /\ Len(regions) + Cardinality({u \in Threads : constructing[u] # -1}) < WordMax + 2
    /\ constructing' = [constructing EXCEPT ![t] = fetch_add(CURRENT_REGION_ID).val]
    /\ CURRENT_REGION_ID' = fetch_add(CURRENT_REGION_ID).stored
    /\ ret' = Returned("RegionID::new", t, -1, NoPop, TRUE, NoPop)
    /\ UNCHANGED <<geoVars, ongoing_transport, statistics, transport_probability,
                   debug_assertions, aborted>>

\* Region {name, population, ports, id}, by thread t: the region exists.
\* regions lists the regions of the process in the order they came to exist.
RegionNew(t) ==
    /\ constructing[t] # -1
    /\ regions' = Append(regions, Region(constructing[t], "Super", new_healthy(0)))
    /\ constructing' = [constructing EXCEPT ![t] = -1]
    /\ ret' = Returned("Region::new", t, -1, NoPop, TRUE, NoPop)
    /\ UNCHANGED <<graph, ongoing_transport, statistics, transport_probability,
                   debug_assertions, aborted, CURRENT_REGION_ID>>

NextRegionID == \E t \in Threads : RegionIDNew(t) \/ RegionNew(t)

SpecRegionID == InitRegion /\ [][NextRegionID]_vars

(***************************************************************************)
(* SpecRegion: two regions made with Region::new, as in                     *)
(* region_construction_test, under add_port and get_port calls.             *)
(***************************************************************************)
\* Region::get_port: ports.iter().find(|port| port.id == id), as the list of
\* what it finds (empty for None).
region_get_port(region, id) ==
    LET found == SelectSeq(region.ports, LAMBDA port : port.id = id)
    IN IF found = <<>> THEN <<>> ELSE <<found[1]>>

InitRegionPorts ==
    /\ graph = NewPortGraph
    /\ regions = <<Region(0, "Super", new_healthy(1)), Region(1, "Mega", new_healthy(2))>>
    /\ InitSim
    /\ ret = NoCall

\* regions[r].add_port(port_id, capacity): ret.a is r, ret.ports the copy returned.
RegionAddPort ==
    /\ \E r \in 1..Len(regions), port_id \in PortIDs :
          /\ Len(regions[r].ports) < MaxPorts
          /\ \E region \in {region_add_port(regions[r], port_id, port_id + 1, <<0, 0>>)} :
                /\ regions' = [regions EXCEPT ![r] = region]
                /\ ret' = ReturnedPorts("Region::add_port", r, TRUE,
                                        <<region.ports[Len(region.ports)]>>)
    /\ UNCHANGED <<graph, simVars>>

\* regions[r].get_port(id): ret.a is r, ret.b the id asked for.
RegionGetPort ==
    /\ \E r \in 1..Len(regions), id \in 0..(MaxPortID + 1) :
          ret' = [ReturnedPorts("Region::get_port", r, region_get_port(regions[r], id) # <<>>,
                                region_get_port(regions[r], id)) EXCEPT !.b = id]
    /\ UNCHANGED <<geoVars, simVars>>

NextRegion == RegionAddPort \/ RegionGetPort

SpecRegion == InitRegionPorts /\ [][NextRegion]_vars

(***************************************************************************)
(* SpecGeo: a constructed SimulationGeography under add_population and     *)
(* subtract_population calls.                                              *)
(***************************************************************************)
\* region ids passed to the geography calls: the two regions' and an absent one
RegionIdInputs == {0, 1, 2}

InitGeo ==
    /\ \E pop0 \in PopulationsOfTotalUpTo(MaxTotal), n \in 0..MaxTotal :
          /\ regions = BuildRegions(pop0, new_healthy(n))
          /\ graph = BuildGraph(BuildRegions(pop0, new_healthy(n)), RingEdges)
    /\ ongoing_transport = <<>>
    /\ statistics = [in_transit |-> NoPop, region_population |-> NoPop]
    /\ transport_probability = 0
    /\ debug_assertions \in BOOLEAN
    /\ aborted = FALSE
    /\ InitRegionID
    /\ ret = NoCall

AddPopulationCall(region_id, population) ==
    /\ ~aborted
    /\ LET r == add_population(regions, region_id, population)
       IN /\ regions' = r.regions
          /\ ret' = Returned("add_population", region_id, -1, population, r.ok, r.pop)
    /\ UNCHANGED <<graph, simVars>>

SubtractPopulationCall(region_id, population) ==
    /\ ~aborted
    /\ LET r == subtract_population(regions, debug_assertions, region_id, population)
       IN /\ regions' = r.regions
          /\ aborted' = r.panicked
          /\ ret' = Returned("subtract_population", region_id, -1, population,
                             r.ok /\ ~r.panicked, r.pop)
    /\ UNCHANGED <<graph, ongoing_transport, statistics, transport_probability, debug_assertions,
                   idVars>>

AddPopulation ==
    \E region_id \in RegionIdInputs, population \in PopulationsOfTotalUpTo(MaxAmount) :
        AddPopulationCall(region_id, population)

SubtractPopulation ==
    \E region_id \in RegionIdInputs, population \in PopulationsOfTotalUpTo(MaxAmount) :
        SubtractPopulationCall(region_id, population)

NextGeo == AddPopulation \/ SubtractPopulation

SpecGeo == InitGeo /\ [][NextGeo]_vars

(***************************************************************************)
(* SpecClose: a SimulationGeography under close_port and the destination   *)
(* queries. SimulationGeography::new takes any graph and any regions, so   *)
(* the geography may also lack a region port in the graph, or a graph port *)
(* in the regions.                                                          *)
(***************************************************************************)
\* SimulationGeography::find_port_in_regions: where the first port with the
\* id is, as <<region index, port index>>, regions and ports in list order;
\* <<0, 0>> for None.
find_port_in_regions(regs, port_id) ==
    LET hits == UNION {{<<r, k>> : k \in {j \in 1..Len(regs[r].ports) :
                                              regs[r].ports[j].id = port_id}} :
                       r \in 1..Len(regs)}
    IN IF hits = {} THEN <<0, 0>>
       ELSE CHOOSE at \in hits :
               \A other \in hits :
                  \/ at[1] < other[1]
                  \/ at[1] = other[1] /\ at[2] <= other[2]

\* What close_port gives: Ok or Err, and the graph and regions afterwards.
PortsResult(ok, g, regs) == [ok |-> ok, graph |-> g, regions |-> regs]

close_port_region_copy_first(g, regs, port_id) ==
    LET at == find_port_in_regions(regs, port_id)
    IN IF at = <<0, 0>> THEN PortsResult(FALSE, g, regs)
       ELSE IF ~in_graph(g, port_id)
       THEN PortsResult(FALSE, g,
                [regs EXCEPT ![at[1]].ports[at[2]] = port_close_port(@)])
       ELSE PortsResult(TRUE,
                [g EXCEPT ![port_id].port = port_close_port(@)],
                [regs EXCEPT ![at[1]].ports[at[2]] = port_close_port(@)])

close_port_graph_copy_only(g, regs, port_id) ==
    LET at == find_port_in_regions(regs, port_id)
    IN IF at = <<0, 0>> THEN PortsResult(FALSE, g, regs)
       ELSE IF ~in_graph(g, port_id) THEN PortsResult(FALSE, g, regs)
       ELSE PortsResult(TRUE, [g EXCEPT ![port_id].port = port_close_port(@)], regs)

\* SimulationGeography::close_port
close_port(g, regs, port_id) ==
    LET at == find_port_in_regions(regs, port_id)
    IN IF at = <<0, 0>> THEN PortsResult(FALSE, g, regs)
       ELSE IF ~in_graph(g, port_id) THEN PortsResult(FALSE, g, regs)
       ELSE PortsResult(TRUE,
                [g EXCEPT ![port_id].port = port_close_port(@)],
                [regs EXCEPT ![at[1]].ports[at[2]] = port_close_port(@)])

\* SimulationGeography::get_all_dest_ports forwards to the graph
get_all_dest_ports(g, id) == get_dest_ports(g, id)

\* Regions as a document gives them: the ports whose ids are in closed_ids are
\* loaded closed.
LoadRegions(regs, closed_ids) ==
    [r \in 1..Len(regs) |->
        [regs[r] EXCEPT !.ports =
            [k \in 1..Len(regs[r].ports) |->
                LoadedPort(regs[r].ports[k], regs[r].ports[k].id \in closed_ids)]]]

\* The sets of ports loaded closed, among the ports BuildRegions makes.
ClosedSets == SUBSET {0, 1, 2}

\* The geographies handed to SimulationGeography::new: regions and graph with
\* the same ports; a graph that holds only the second region's ports; regions
\* without the second region.
Geographies ==
    LET regs(closed_ids) == LoadRegions(BuildRegions(new_healthy(1), new_healthy(0)), closed_ids)
    IN {[regions |-> regs(c), graph |-> BuildGraph(regs(c), edges)] :
            c \in ClosedSets, edges \in EdgeLists}
       \cup {[regions |-> regs(c), graph |-> BuildGraph(<<regs(c)[2]>>, <<>>)] : c \in ClosedSets}
       \cup {[regions |-> <<regs(c)[1]>>, graph |-> BuildGraph(regs(c), edges)] :
            c \in ClosedSets, edges \in EdgeLists}

\* port ids passed to close_port: 0..MaxPortID and one that no port has
ClosePortInputs == 0..(MaxPortID + 1)

InitClose ==
    /\ \E geography \in Geographies :
          /\ regions = geography.regions
          /\ graph = geography.graph
    /\ InitSim
    /\ ret = NoCall

ClosePortCall(port_id) ==
    /\ LET r == close_port(graph, regions, port_id)
       IN /\ graph' = r.graph
          /\ regions' = r.regions
          /\ ret' = Returned("close_port", port_id, -1, NoPop, r.ok, NoPop)
    /\ UNCHANGED simVars

ClosePort == \E port_id \in ClosePortInputs : ClosePortCall(port_id)

NextClose == ClosePort \/ GetDestPorts \/ GetOpenDestPorts

SpecClose == InitClose /\ [][NextClose]_vars

(***************************************************************************)
(* RandomTransportAllocator (transportation_allocator.rs)                  *)
(***************************************************************************)
\* transport_probability in halves: 0.0, 0.5, 1.0
Probabilities == {0, 1, 2}

\* get_random() for the chance test, in halves: 0.0 and 0.5 (never 1.0)
ChanceDraws == {0, 1}

ISqrt(n) == CHOOSE k \in 0..n : k * k <= n /\ n < (k + 1) * (k + 1)

distance_rounded(pos1, pos2) ==
    LET squared == (pos1[1] - pos2[1]) * (pos1[1] - pos2[1])
                     + (pos1[2] - pos2[2]) * (pos1[2] - pos2[2])
        k == ISqrt(squared)
    IN IF squared > k * k + k THEN k + 1 ELSE k

\* start_port.pos.distance(&dest.pos) as u32: the Euclidean distance, truncated
distance_as_u32(pos1, pos2) ==
    ISqrt((pos1[1] - pos2[1]) * (pos1[1] - pos2[1]) + (pos1[2] - pos2[2]) * (pos1[2] - pos2[2]))

TransportJob(start_port, start_region, end_port, end_region, population, time) ==
    [start_port |-> start_port, start_region |-> start_region, end_port |-> end_port,
     end_region |-> end_region, population |-> population, time |-> time]

\* The random values one call of calculate_transport consumes: the chance
\* test, then pick_random's index into the candidates, then the magnitude
\* ((capacity + 1) as f64 * get_random()) as u32, which ranges over
\* 0..capacity. A value that is not drawn is 0.
Draw(chance, pick, magnitude) == [chance |-> chance, pick |-> pick, magnitude |-> magnitude]

Draws(prob, start_port, choices) ==
    {Draw(u, 0, 0) : u \in {v \in ChanceDraws : ~(v < prob) \/ Len(choices) = 0}}
    \cup {Draw(u, k, m) : u \in {v \in ChanceDraws : v < prob},
                          k \in 1..Len(choices), m \in 0..start_port.capacity}

\* Option<Vec<TransportJob>>, and whether a debug_assert! panicked
AllocResult(some, jobs, panicked) == [some |-> some, jobs |-> jobs, panicked |-> panicked]

Fits(group, self) ==
    /\ group.healthy <= self.healthy
    /\ group.dead <= self.dead
    /\ group.infected <= self.infected
    /\ group.recovered <= self.recovered

calculate_transport_always_scales(prob, debug, start_port, start_region, choices, draw) ==
    IF draw.chance < prob /\ Len(choices) > 0 /\ draw.magnitude # 0
    THEN LET dest == choices[draw.pick]
             population == start_region.population
         IN AllocResult(TRUE,
                <<TransportJob(start_port.id, start_region.id, dest.id, dest.region,
                               IF get_total(population) = 0
                               THEN population
                               ELSE scale(population, draw.magnitude, get_total(population)),
                               distance_as_u32(start_port.pos, dest.pos))>>, FALSE)
    ELSE AllocResult(FALSE, <<>>, FALSE)

calculate_transport_sends_empty(prob, debug, start_port, start_region, choices, draw) ==
    IF draw.chance < prob /\ Len(choices) > 0
    THEN LET dest == choices[draw.pick]
             population == start_region.population
         IN AllocResult(TRUE,
                <<TransportJob(start_port.id, start_region.id, dest.id, dest.region,
                               IF draw.magnitude >= get_total(population)
                               THEN population
                               ELSE scale(population, draw.magnitude, get_total(population)),
                               distance_as_u32(start_port.pos, dest.pos))>>, FALSE)
    ELSE AllocResult(FALSE, <<>>, FALSE)

calculate_transport_truncates(prob, debug, start_port, start_region, choices, draw) ==
    IF draw.chance < prob /\ Len(choices) > 0 /\ draw.magnitude # 0
    THEN LET dest == choices[draw.pick]
             population == start_region.population
         IN AllocResult(TRUE,
                <<TransportJob(start_port.id, start_region.id, dest.id, dest.region,
                               IF draw.magnitude >= get_total(population)
                               THEN population
                               ELSE scale_truncate(population, draw.magnitude,
                                                   get_total(population)),
                               distance_as_u32(start_port.pos, dest.pos))>>, FALSE)
    ELSE AllocResult(FALSE, <<>>, FALSE)

calculate_transport_ends_at_home(prob, debug, start_port, start_region, choices, draw) ==
    IF draw.chance < prob /\ Len(choices) > 0 /\ draw.magnitude # 0
    THEN LET dest == choices[draw.pick]
             population == start_region.population
         IN AllocResult(TRUE,
                <<TransportJob(start_port.id, start_region.id, dest.id, start_port.region,
                               IF draw.magnitude >= get_total(population)
                               THEN population
                               ELSE scale(population, draw.magnitude, get_total(population)),
                               distance_as_u32(start_port.pos, dest.pos))>>, FALSE)
    ELSE AllocResult(FALSE, <<>>, FALSE)

calculate_transport_swaps_end(prob, debug, start_port, start_region, choices, draw) ==
    IF draw.chance < prob /\ Len(choices) > 0 /\ draw.magnitude # 0
    THEN LET dest == choices[draw.pick]
             population == start_region.population
         IN AllocResult(TRUE,
                <<TransportJob(start_port.id, start_region.id, dest.region, dest.id,
                               IF draw.magnitude >= get_total(population)
                               THEN population
                               ELSE scale(population, draw.magnitude, get_total(population)),
                               distance_as_u32(start_port.pos, dest.pos))>>, FALSE)
    ELSE AllocResult(FALSE, <<>>, FALSE)

\* RandomTransportAllocator::calculate_transport
calculate_transport(prob, debug, start_port, start_region, choices, draw) ==
    IF draw.chance < prob
    THEN IF Len(choices) = 0
         THEN AllocResult(FALSE, <<>>, FALSE)
         ELSE LET dest == choices[draw.pick]
                  random_pop == draw.magnitude
                  population == start_region.population
                  transported_population ==
                      IF random_pop >= get_total(population)
                      THEN population
                      ELSE scale(population, random_pop, get_total(population))
              IN IF random_pop = 0
                 THEN AllocResult(FALSE, <<>>, FALSE)
                 ELSE IF debug /\ ~Fits(transported_population, population)
                 THEN AllocResult(FALSE, <<>>, TRUE)
                 ELSE AllocResult(TRUE,
                          <<TransportJob(start_port.id, start_region.id, dest.id, dest.region,
                                         transported_population,
                                         distance_as_u32(start_port.pos, dest.pos))>>,
                          FALSE)
    ELSE AllocResult(FALSE, <<>>, FALSE)

(***************************************************************************)
(* SpecAlloc: calculate_transport called for a port of a constructed       *)
(* geography, with the candidates the geography gives for it.              *)
(***************************************************************************)
InitAlloc ==
    /\ \E pop0 \in PopulationsOfTotalUpTo(MaxTotal), n \in 0..MaxTotal, edges \in EdgeLists,
          pos \in PortPositions :
          /\ regions = BuildRegionsAt(pop0, new_healthy(n), pos)
          /\ graph = BuildGraph(BuildRegionsAt(pop0, new_healthy(n), pos), edges)
    /\ ongoing_transport = <<>>
    /\ statistics = [in_transit |-> NoPop, region_population |-> NoPop]
    /\ transport_probability \in Probabilities
    /\ debug_assertions \in BOOLEAN
    /\ aborted = FALSE
    /\ InitRegionID
    /\ ret = NoCall

\* What a call of calculate_transport returned, and what it was given: ret.a
\* and ret.b are the job's start and end port, ret.pop its population and
\* ret.time its duration; ret.jobs is the length of the returned list,
\* ret.draw the random values and ret.candidates the number of candidates.
\* ret.region is the id of the region given, ret.job_start the job's
\* start_port and start_region and ret.job_end_region its end_region.
ReturnedJobs(start_port, start_region, res, draw, candidates) ==
    [op |-> "calculate_transport", a |-> start_port.id,
     region |-> start_region.id,
     job_start |-> IF res.some
                   THEN <<res.jobs[1].start_port, res.jobs[1].start_region>>
                   ELSE <<-1, -1>>,
     job_end_region |-> IF res.some THEN res.jobs[1].end_region ELSE -1,
     b |-> IF res.some THEN res.jobs[1].end_port ELSE -1,
     arg |-> NoPop, ok |-> res.some,
     pop |-> IF res.some THEN res.jobs[1].population ELSE NoPop,
     time |-> IF res.some THEN res.jobs[1].time ELSE 0,
     jobs |-> Len(res.jobs), draw |-> draw, candidates |-> candidates]

CalculateTransportCall(r, k, draw) ==
    /\ ~aborted
    /\ LET start_port == regions[r].ports[k]
           res == calculate_transport(transport_probability, debug_assertions, start_port,
                                      regions[r], get_open_dest_ports(graph, start_port.id), draw)
       IN /\ aborted' = res.panicked
          /\ ret' = ReturnedJobs(start_port, regions[r], res, draw,
                                 Len(get_open_dest_ports(graph, start_port.id)))
    /\ UNCHANGED <<geoVars, ongoing_transport, statistics, transport_probability,
                   debug_assertions,
                   idVars>>

CalculateTransport ==
    \E r \in 1..Len(regions) : \E k \in 1..Len(regions[r].ports) :
        \E draw \in Draws(transport_probability, regions[r].ports[k],
                          get_open_dest_ports(graph, regions[r].ports[k].id)) :
            CalculateTransportCall(r, k, draw)

NextAlloc == CalculateTransport

SpecAlloc == InitAlloc /\ [][NextAlloc]_vars

(***************************************************************************)
(* Simulation (examples/2d-plague-sim/simulation.rs)                       *)
(***************************************************************************)
InProgressJob_two_days(job) == [job |-> job, expected_time |-> 2]

\* InProgressJob::new
InProgressJob(job) == [job |-> job, expected_time |-> job.time]

RECURSIVE SumPopulations(_)
SumPopulations(pops) ==
    IF pops = <<>> THEN new_healthy(0)
    ELSE Add(SumPopulations(SubSeq(pops, 1, Len(pops) - 1)), pops[Len(pops)])

\* Simulation::calculate_regions_population: a fold of + from new_healthy(0)
calculate_regions_population(regs) ==
    SumPopulations([k \in 1..Len(regs) |-> regs[k].population])

\* Simulation::calculate_transit_population
calculate_transit_population(jobs) ==
    SumPopulations([k \in 1..Len(jobs) |-> jobs[k].job.population])

\* MediatorStatistics
Statistics(in_transit, region_population) ==
    [in_transit |-> in_transit, region_population |-> region_population]

update_statistics_regions_only(jobs, regs) ==
    Statistics(new_healthy(0), calculate_regions_population(regs))

\* Simulation::update_statistics, as the statistics it stores
update_statistics(jobs, regs) ==
    Statistics(calculate_transit_population(jobs), calculate_regions_population(regs))

\* What a step of update() leaves: the regions, a job list, and whether it panicked.
StepResult(regs, jobs, panicked) == [regions |-> regs, jobs |-> jobs, panicked |-> panicked]

\* The retain_mut closure over ongoing_transport[from..], in order: a job with
\* time 0 is handed to add_population and dropped (panic if its end region is
\* missing: the jobs not yet visited stay in the list); any other job has its
\* time lowered by one and is kept.
RECURSIVE ProcessJobs(_, _, _, _)
ProcessJobs(regs, jobs, from, kept) ==
    IF from > Len(jobs) THEN StepResult(regs, kept, FALSE)
    ELSE LET job == jobs[from]
         IN IF job.job.time = 0
            THEN IF has_region(regs, job.job.end_region)
                 THEN ProcessJobs(add_population(regs, job.job.end_region,
                                                 job.job.population).regions,
                                  jobs, from + 1, kept)
                 ELSE StepResult(regs, kept \o SubSeq(jobs, from, Len(jobs)), TRUE)
            ELSE ProcessJobs(regs, jobs, from + 1,
                             Append(kept, [job EXCEPT !.job.time = @ - 1]))

\* The ports of all regions, region by region, in the order update() visits them.
RECURSIVE AllPorts(_)
AllPorts(regs) ==
    IF regs = <<>> THEN <<>>
    ELSE [k \in 1..Len(regs[1].ports) |-> [region |-> regs[1], port |-> regs[1].ports[k]]]
         \o AllPorts(Tail(regs))

\* Simulation::calculate_transport_jobs for every region of get_region_ids(),
\* from visit number `from` on, given what the allocator returns at each
\* visit: the port's candidates come from get_open_dest_ports (unwrap: panic
\* for a port the graph does not know), and every job returned is tried
\* against the region's population as it is before any departure of this
\* tick (panic on Err).
RECURSIVE GenerateJobs(_, _, _, _)
GenerateJobs(g, visits, results, from) ==
    IF from > Len(visits) THEN StepResult(<<>>, <<>>, FALSE)
    ELSE LET port == visits[from].port
             region == visits[from].region
             res == results[from]
         IN IF ~in_graph(g, port.id) THEN StepResult(<<>>, <<>>, TRUE)
            ELSE IF \/ res.panicked
                    \/ \E k \in 1..Len(res.jobs) :
                          ~emigrate(region.population, res.jobs[k].population).ok
                 THEN StepResult(<<>>, <<>>, TRUE)
                 ELSE LET rest == GenerateJobs(g, visits, results, from + 1)
                      IN StepResult(<<>>,
                                    [k \in 1..Len(res.jobs) |-> InProgressJob(res.jobs[k])]
                                      \o rest.jobs,
                                    rest.panicked)

\* "make people depart": subtract_population for every new job in order; the
\* first Err panics, with the earlier subtractions done.
RECURSIVE Depart(_, _, _, _)
Depart(regs, debug, new_jobs, from) ==
    IF from > Len(new_jobs) THEN StepResult(regs, new_jobs, FALSE)
    ELSE LET r == subtract_population(regs, debug, new_jobs[from].job.start_region,
                                      new_jobs[from].job.population)
         IN IF r.ok /\ ~r.panicked
            THEN Depart(r.regions, debug, new_jobs, from + 1)
            ELSE StepResult(r.regions, new_jobs, TRUE)

\* What the allocator can return for one visit, over all its draws.
AllocatorResults(g, visit, prob, debug) ==
    LET choices == IF in_graph(g, visit.port.id)
                   THEN get_open_dest_ports(g, visit.port.id) ELSE <<>>
    IN {calculate_transport(prob, debug, visit.port, visit.region, choices, d) :
           d \in Draws(prob, visit.port, choices)}

\* What the allocator can return over one update(): one result per port visited.
RECURSIVE ResultSeqs(_, _, _, _, _)
ResultSeqs(g, visits, prob, debug, from) ==
    IF from > Len(visits) THEN {<<>>}
    ELSE {<<res>> \o rest : res \in AllocatorResults(g, visits[from], prob, debug),
                            rest \in ResultSeqs(g, visits, prob, debug, from + 1)}

\* Simulation::new
\* The probabilities the simulation is built with: never and always, the
\* values the tests of the source use. For update an allocator that declines
\* by chance returns the same None as one that draws a magnitude of zero.
SimProbabilities == {0, 2}

InitSimulation ==
    /\ \E pop0 \in PopulationsOfTotalUpTo(MaxTotal), n \in {0, 1}, edges \in EdgeLists :
          /\ regions = BuildRegions(pop0, new_healthy(n))
          /\ graph = BuildGraph(BuildRegions(pop0, new_healthy(n)), edges)
    /\ ongoing_transport = <<>>
    /\ statistics = Statistics(new_healthy(0), calculate_regions_population(regions))
    /\ transport_probability \in SimProbabilities
    /\ debug_assertions \in BOOLEAN
    /\ aborted = FALSE
    /\ InitRegionID
    /\ ret = NoCall

\* The jobs the retain_mut closure hands to add_population, in order: those
\* with time 0, up to the first whose end region is missing.
RECURSIVE DeliveredJobs(_, _, _)
DeliveredJobs(regs, jobs, from) ==
    IF from > Len(jobs) THEN <<>>
    ELSE IF jobs[from].job.time # 0 THEN DeliveredJobs(regs, jobs, from + 1)
    ELSE IF has_region(regs, jobs[from].job.end_region)
         THEN <<jobs[from]>> \o DeliveredJobs(regs, jobs, from + 1)
         ELSE <<>>

\* What a call of update() did: ok when it returned, and the regions its
\* arrival step delivered a job to.
ReturnedUpdate(ok, delivered) ==
    [op |-> "update", a |-> -1, b |-> -1, arg |-> NoPop, ok |-> ok, pop |-> NoPop,
     delivered_to |-> {delivered[k].job.end_region : k \in 1..Len(delivered)}]

\* Simulation::update, given the regions and jobs the arrival step leaves and
\* what the allocator returns at each port visited. A panic leaves the state
\* as it is at the panic and nothing runs afterwards. (The singleton \E bind
\* each intermediate value once.)
UpdateCall(arrived, visits, results) ==
    \E generated \in {GenerateJobs(graph, visits, results, 1)} :
    \E departed \in {IF generated.panicked THEN StepResult(arrived.regions, <<>>, TRUE)
                     ELSE Depart(arrived.regions, debug_assertions, generated.jobs, 1)} :
    \E all_jobs \in {arrived.jobs \o generated.jobs} :
    \E new_statistics \in {update_statistics(all_jobs, departed.regions)} :
    LET start_total == get_total(statistics.region_population) + get_total(statistics.in_transit)
        end_total == get_total(new_statistics.region_population)
                       + get_total(new_statistics.in_transit)
    IN /\ ~aborted
       /\ UNCHANGED <<graph, transport_probability, debug_assertions,
                   idVars>>
       /\ IF arrived.panicked \/ generated.panicked
          THEN /\ regions' = arrived.regions
               /\ ongoing_transport' = arrived.jobs
               /\ UNCHANGED statistics
               /\ aborted' = TRUE
          ELSE IF departed.panicked
          THEN /\ regions' = departed.regions
               /\ ongoing_transport' = arrived.jobs
               /\ UNCHANGED statistics
               /\ aborted' = TRUE
          ELSE /\ regions' = departed.regions
               /\ ongoing_transport' = all_jobs
               /\ statistics' = new_statistics
               /\ aborted' = (debug_assertions /\ start_total # end_total)
       /\ ret' = ReturnedUpdate(~aborted', DeliveredJobs(regions, ongoing_transport, 1))

Update ==
    \E arrived \in {ProcessJobs(regions, ongoing_transport, 1, <<>>)} :
    \E visits \in {AllPorts(arrived.regions)} :
    \E results \in ResultSeqs(graph, visits, transport_probability, debug_assertions, 1) :
        UpdateCall(arrived, visits, results)

Next == Update

Spec == InitSimulation /\ [][Next]_vars

(***************************************************************************)
(* PortGraph claims (SpecGraph)                                            *)
(***************************************************************************)
NoDuplicates(s) == \A j, k \in 1..Len(s) : j # k => s[j] # s[k]

\* C9: after any sequence of add_port, add_directed_connection and
\* add_undirected_connection calls from PortGraph::new(), successful or
\* failing, every id in every destination list is a registered port, no port
\* has itself as a destination, and no destination list holds an id twice.
C9_GraphWellFormed ==
    \A id \in DOMAIN graph :
        /\ \A k \in 1..Len(graph[id].dests) :
              /\ graph[id].dests[k] \in DOMAIN graph
              /\ graph[id].dests[k] # id
        /\ NoDuplicates(graph[id].dests)

\* C9's case: a port with two destinations, right after a call that failed.
C9_Witness ==
    /\ ret.op \in {"add_directed_connection", "add_undirected_connection"}
    /\ ~ret.ok
    /\ \E id \in DOMAIN graph : Len(graph[id].dests) >= 2

\* C10: add_directed_connection(start, end) fails exactly when start = end, or
\* start or end is not registered, or the edge start -> end already exists; a
\* failing call leaves the graph unchanged; a successful call appends end to
\* start's destination list and changes nothing else (no reverse edge).
C10_DirectedConnection ==
    [][ret'.op = "add_directed_connection" =>
         LET start == ret'.a
             end == ret'.b
             fails == \/ start = end
                      \/ start \notin DOMAIN graph
                      \/ end \notin DOMAIN graph
                      \/ Contains(graph[start].dests, end)
         IN /\ ret'.ok = ~fails
            /\ fails => graph' = graph
            /\ ~fails =>
                 /\ DOMAIN graph' = DOMAIN graph
                 /\ \A id \in DOMAIN graph :
                       /\ graph'[id].port = graph[id].port
                       /\ id # start => graph'[id].dests = graph[id].dests
                 /\ graph'[start].dests = graph[start].dests \o <<end>>
      ]_vars

\* C10's case: a successful directed connection whose reverse edge is absent.
C10_Witness ==
    /\ ret.op = "add_directed_connection"
    /\ ret.ok
    /\ \E start, end \in DOMAIN graph :
          /\ Contains(graph[start].dests, end)
          /\ ~Contains(graph[end].dests, start)

(***************************************************************************)
(* Population and SimulationGeography claims (SpecPop, SpecGeo)            *)
(***************************************************************************)
Categories == {"healthy", "infected", "dead", "recovered"}

Exceeds(group, self) == \E c \in Categories : group[c] > self[c]

Minus(self, group) == [c \in Categories |-> self[c] - group[c]]

Plus(self, group) == [c \in Categories |-> self[c] + group[c]]

\* C5: emigrate(sub) returns an error iff some category of sub is larger than
\* the same category of self; otherwise it returns self minus sub in every
\* category; the receiver is never modified.
C5_Emigrate ==
    [][ret'.op = "emigrate" =>
         LET self == regions[1].population
             group == ret'.arg
         IN /\ ret'.ok = ~Exceeds(group, self)
            /\ ret'.ok => ret'.pop = Minus(self, group)
            /\ regions' = regions
      ]_vars

\* C5's case: an emigrate call refused although the group has no more healthy
\* people than the receiver, so a later test of the chain decided.
C5_Witness ==
    /\ ret.op = "emigrate"
    /\ ~ret.ok
    /\ ret.arg.healthy <= regions[1].population.healthy
    /\ ret.arg.dead <= regions[1].population.dead

\* C6: add_population(region_id, delta) merges delta into the region: for a
\* present region_id, get_population(region_id) afterwards is the old
\* population plus delta in each category and every other region is
\* unchanged; for an absent region_id the call fails and no region changes.
C6_AddPopulationMerges ==
    [][ret'.op = "add_population" =>
         LET region_id == ret'.a
             delta == ret'.arg
         IN IF has_region(regions, region_id)
            THEN /\ ret'.ok
                 /\ get_population(regions', region_id)
                      = Plus(get_population(regions, region_id), delta)
                 /\ \A k \in 1..Len(regions) :
                       regions[k].id # region_id => regions'[k] = regions[k]
            ELSE /\ ~ret'.ok
                 /\ regions' = regions
      ]_vars

\* C7: subtract_population(region_id, amount), when it succeeds, stores the old
\* population minus amount in the region, returns that population, leaves
\* all other regions unchanged, and old total = new total + amount total.
C7_SubtractPopulation ==
    [][(ret'.op = "subtract_population" /\ ret'.ok) =>
         LET region_id == ret'.a
             amount == ret'.arg
         IN /\ has_region(regions, region_id)
            /\ Len(regions') = Len(regions)
            /\ get_population(regions', region_id)
                 = Minus(get_population(regions, region_id), amount)
            /\ ret'.pop = get_population(regions', region_id)
            /\ \A k \in 1..Len(regions) :
                  regions[k].id # region_id => regions'[k] = regions[k]
            /\ get_total(get_population(regions, region_id))
                 = get_total(get_population(regions', region_id)) + get_total(amount)
      ]_vars

\* C7's case: a successful subtraction of people who are not healthy that
\* leaves healthy people behind in the region.
C7_Witness ==
    /\ ret.op = "subtract_population"
    /\ ret.ok
    /\ get_total(ret.arg) > 0
    /\ ret.arg.healthy = 0
    /\ ret.pop.healthy > 0
    /\ get_population(regions, ret.a) = ret.pop

\* C8: subtract_population fails when region_id is unknown and fails when
\* amount exceeds the region's population in some category; in both cases
\* every region's population, every port and the graph are as before.
C8_SubtractPopulationFails ==
    [][ret'.op = "subtract_population" =>
         LET region_id == ret'.a
             amount == ret'.arg
             unknown == ~has_region(regions, region_id)
             short == /\ ~unknown
                      /\ Exceeds(amount, get_population(regions, region_id))
         IN /\ (unknown \/ short) => ~ret'.ok
            /\ ~ret'.ok => (regions' = regions /\ graph' = graph)
      ]_vars

\* C8's case: a subtraction refused for a region that exists and holds as many
\* people in total as the amount asked for, but in other categories.
C8_Witness ==
    /\ ret.op = "subtract_population"
    /\ ~ret.ok
    /\ has_region(regions, ret.a)
    /\ get_total(get_population(regions, ret.a)) >= get_total(ret.arg)

(***************************************************************************)
(* Claims about RandomTransportAllocator (SpecAlloc)                       *)
(***************************************************************************)
\* The region that owns the port with the given id.
RegionOfPort(regs, port_id) ==
    CHOOSE r \in 1..Len(regs) : \E k \in 1..Len(regs[r].ports) : regs[r].ports[k].id = port_id

\* C4: for every start port, start region, candidate list and random draw,
\* the job calculate_transport returns carries, in each of the four
\* categories, no more than the start region currently has, so emigrate of the
\* job's population from the region's succeeds, in the transport-everything
\* branch and in the scaled branch; no debug assertion of the call fires.
C4_AllocatorContract ==
    /\ ~aborted
    /\ ret.op = "calculate_transport" /\ ret.ok =>
          LET population == regions[RegionOfPort(regions, ret.a)].population
          IN /\ Fits(ret.pop, population)
             /\ emigrate(population, ret.pop).ok

\* C4's case: the scaled branch: a job that carries some but not all of the
\* people of its start region.
C4_Witness ==
    /\ ret.op = "calculate_transport"
    /\ ret.ok
    /\ get_total(ret.pop) > 0
    /\ get_total(ret.pop) < get_total(regions[RegionOfPort(regions, ret.a)].population)

(***************************************************************************)
(* Claims about Simulation::update (Spec)                                  *)
(***************************************************************************)
\* C1: the total of statistics.in_transit plus the total of
\* statistics.region_population after each update() equals its value right
\* after Simulation::new; stated tick by tick: every update() that returns
\* leaves that sum as it was before the call.
C1_GlobalConservation ==
    [][ret'.op = "update" /\ ~aborted' =>
          get_total(statistics'.in_transit) + get_total(statistics'.region_population)
            = get_total(statistics.in_transit) + get_total(statistics.region_population)]_vars

\* C2: after every update() the Population statistics.in_transit +
\* statistics.region_population equals, category by category, the value it
\* had before the first update(); stated tick by tick: every update() that
\* returns leaves each of the four categories of that sum as it was.
C2_CategoryConservation ==
    [][ret'.op = "update" /\ ~aborted' =>
          Add(statistics'.in_transit, statistics'.region_population)
            = Add(statistics.in_transit, statistics.region_population)]_vars

\* C3: no call of update() aborts, in any sequence of ticks on a geography
\* whose regions and graph hold the same ports: every departure is subtracted
\* from its source region, also when one region owns several ports that each
\* produce a job in the same tick, and every arrival finds its region.
C3_UpdateCompletes == ~aborted

(***************************************************************************)
(* Further claims about PortGraph (SpecGraph)                              *)
(***************************************************************************)
\* The edges of a graph, as (start, end) pairs.
EdgeSet(g) == {e \in (DOMAIN g) \X PortIDs : Contains(g[e[1]].dests, e[2])}

\* C11: add_undirected_connection(a, b) is atomic: when it fails (a = b, an
\* unregistered id, edge a -> b present, or edge b -> a present) the graph is
\* exactly as before the call, neither direction added; each of the four
\* conditions makes it fail.
C11_UndirectedAtomic ==
    [][ret'.op = "add_undirected_connection" =>
         LET a == ret'.a
             b == ret'.b
             refused == \/ a = b
                        \/ ~in_graph(graph, a) \/ ~in_graph(graph, b)
                        \/ Contains(graph[a].dests, b)
                        \/ Contains(graph[b].dests, a)
         IN /\ refused => ~ret'.ok
            /\ ~ret'.ok => graph' = graph
      ]_vars

\* C11's case: an undirected connection refused by the second test alone:
\* b -> a exists and a -> b does not.
C11_Witness ==
    /\ ret.op = "add_undirected_connection"
    /\ ~ret.ok
    /\ ret.a # ret.b
    /\ in_graph(graph, ret.a) /\ in_graph(graph, ret.b)
    /\ ~Contains(graph[ret.a].dests, ret.b)
    /\ Contains(graph[ret.b].dests, ret.a)

\* C12: when neither a -> b nor b -> a exists and both ids are registered and
\* different, add_undirected_connection(a, b) succeeds and gives the edge set
\* that the successful calls add_directed_connection(a, b) and then
\* add_directed_connection(b, a) give on the same graph.
C12_UndirectedIsTwoDirected ==
    [][ret'.op = "add_undirected_connection" =>
         LET a == ret'.a
             b == ret'.b
             first == add_directed_connection(graph, a, b)
             second == add_directed_connection(first.graph, b, a)
         IN (/\ a # b
             /\ in_graph(graph, a) /\ in_graph(graph, b)
             /\ ~Contains(graph[a].dests, b)
             /\ ~Contains(graph[b].dests, a))
            => /\ ret'.ok
               /\ first.ok /\ second.ok
               /\ DOMAIN graph' = DOMAIN second.graph
               /\ EdgeSet(graph') = EdgeSet(second.graph)
      ]_vars

\* C12's case: a successful undirected connection in a graph that already
\* held another edge.
C12_Witness ==
    /\ ret.op = "add_undirected_connection"
    /\ ret.ok
    /\ <<ret.a, ret.b>> \in EdgeSet(graph)
    /\ <<ret.b, ret.a>> \in EdgeSet(graph)
    /\ Cardinality(EdgeSet(graph)) > 2

\* C13: add_port(port) fails when a port with the same id is registered and
\* then leaves the stored port and every destination list unchanged;
\* otherwise it registers the port with an empty destination list, so in_graph
\* is true and get_dest_ports gives an empty list, and no other node changes.
C13_AddPort ==
    [][ret'.op = "add_port" =>
         LET id == ret'.a
         IN IF in_graph(graph, id)
            THEN /\ ~ret'.ok
                 /\ graph' = graph
            ELSE /\ ret'.ok
                 /\ in_graph(graph', id)
                 /\ get_port(graph', id).id = id
                 /\ get_port(graph', id).region = ret'.b
                 /\ get_dest_ports(graph', id) = <<>>
                 /\ DOMAIN graph' = DOMAIN graph \cup {id}
                 /\ \A k \in DOMAIN graph : graph'[k] = graph[k]
      ]_vars

\* C13's case: add_port refused for an id whose registered port belongs to
\* another region than the port offered and already has a destination.
C13_Witness ==
    /\ ret.op = "add_port"
    /\ ~ret.ok
    /\ get_port(graph, ret.a).region # ret.b
    /\ get_dest_ports(graph, ret.a) # <<>>

\* The elements of a sequence.
Range(seq) == {seq[k] : k \in 1..Len(seq)}

\* The registered ports that are targets of an edge from id.
Neighbours(g, id) == {g[e[2]].port : e \in {x \in EdgeSet(g) : x[1] = id}}

\* The ports whose edges from q the step just taken added, in the order added.
AddedFrom(g, r, q) ==
    IF r.op = "add_directed_connection" /\ r.ok /\ q = r.a THEN <<g[r.b].port>>
    ELSE IF r.op = "add_undirected_connection" /\ r.ok /\ q = r.a THEN <<g[r.b].port>>
    ELSE IF r.op = "add_undirected_connection" /\ r.ok /\ q = r.b THEN <<g[r.a].port>>
    ELSE <<>>

\* C14: get_dest_ports(id) returns None when id is not registered; otherwise
\* exactly the ports that are targets of an edge from id, open or closed, in
\* the order in which the edges were added: every step leaves each port's
\* list as it was, followed by the targets of the edges the step added.
C14_GetDestPorts ==
    [][/\ ret'.op = "get_dest_ports" =>
            LET id == ret'.a
            IN IF ~in_graph(graph, id)
               THEN ~ret'.ok
               ELSE /\ ret'.ok
                    /\ Range(ret'.ports) = Neighbours(graph, id)
                    /\ Len(ret'.ports) = Cardinality(Neighbours(graph, id))
                    /\ ret'.ports = get_dest_ports(graph', id)
       /\ \/ /\ graph' = graph
             /\ ~(ret'.ok /\ ret'.op \in {"add_directed_connection", "add_undirected_connection"})
          \/ \A q \in DOMAIN graph :
                get_dest_ports(graph', q) = get_dest_ports(graph, q) \o AddedFrom(graph, ret', q)
      ]_vars

\* C14's case: a query that returned two ports, a closed one among them, in
\* an order that is not the order of their ids.
C14_Witness ==
    /\ ret.op = "get_dest_ports"
    /\ ret.ok
    /\ Len(ret.ports) = 2
    /\ ret.ports[1].id > ret.ports[2].id
    /\ \E k \in 1..2 : is_closed(ret.ports[k])

\* C15: get_open_dest_ports(id) returns None when id is not registered;
\* otherwise exactly the neighbours of id whose status is Open: no port for
\* which is_closed() is true appears in the result.
C15_GetOpenDestPorts ==
    ret.op = "get_open_dest_ports" =>
        IF ~in_graph(graph, ret.a)
        THEN ~ret.ok
        ELSE /\ ret.ok
             /\ \A k \in 1..Len(ret.ports) : ~is_closed(ret.ports[k])
             /\ Range(ret.ports) = {port \in Neighbours(graph, ret.a) : ~is_closed(port)}

(***************************************************************************)
(* Claims about SimulationGeography::close_port (SpecClose)                *)
(***************************************************************************)
\* The ids of the ports in a list of ports.
PortIdsOf(ports) == {ports[k].id : k \in 1..Len(ports)}

\* C16: after close_port(p) returns Ok, for every port q that has p as a
\* neighbour, get_open_dest_ports(q) does not contain p while
\* get_all_dest_ports(q) still contains p.
C16_ClosedPortFiltered ==
    [][(ret'.op = "close_port" /\ ret'.ok) =>
         LET p == ret'.a
         IN \A q \in DOMAIN graph' :
               Contains(graph'[q].dests, p) =>
                  /\ p \notin PortIdsOf(get_open_dest_ports(graph', q))
                  /\ p \in PortIdsOf(get_all_dest_ports(graph', q))
      ]_vars

\* Every port of the geography with where it is kept: the graph's copies and
\* the regions' copies.
PortCopies(g, regs) ==
    {<<"graph", id, g[id].port>> : id \in DOMAIN g}
    \cup UNION {{<<"region", r, k, regs[r].ports[k]>> : k \in 1..Len(regs[r].ports)} :
                r \in 1..Len(regs)}

\* C17: after close_port(id) returns Ok, the port with that id reports
\* is_closed() = true in the owning region's port list and in the graph, and
\* no other port's status has changed.
C17_ClosePortClosesBoth ==
    [][(ret'.op = "close_port" /\ ret'.ok) =>
         LET id == ret'.a
             at == find_port_in_regions(regions, id)
         IN /\ is_closed(graph'[id].port)
            /\ is_closed(regions'[at[1]].ports[at[2]])
            /\ \A q \in DOMAIN graph : q # id => graph'[q].port = graph[q].port
            /\ \A r \in 1..Len(regions) : \A k \in 1..Len(regions[r].ports) :
                  regions[r].ports[k].id # id => regions'[r].ports[k] = regions[r].ports[k]
      ]_vars

\* C18: close_port(id) fails when the port is missing from the regions or
\* missing from the graph, and a failing call changes the status of no port
\* in either place.
C18_ClosePortFails ==
    [][ret'.op = "close_port" =>
         LET id == ret'.a
             missing == \/ find_port_in_regions(regions, id) = <<0, 0>>
                        \/ ~in_graph(graph, id)
         IN /\ missing => ~ret'.ok
            /\ ~ret'.ok => PortCopies(graph', regions') = PortCopies(graph, regions)
      ]_vars

\* C18's case: close_port refused for a port that a region holds, loaded
\* closed, and the graph does not hold.
C18_Witness ==
    /\ ret.op = "close_port"
    /\ ~ret.ok
    /\ ~in_graph(graph, ret.a)
    /\ find_port_in_regions(regions, ret.a) # <<0, 0>>
    /\ is_closed(regions[find_port_in_regions(regions, ret.a)[1]]
                    .ports[find_port_in_regions(regions, ret.a)[2]])


(***************************************************************************)
(* SpecAll: a Simulation whose geography holds the same ports in its       *)
(* regions and its graph, under update() and the calls a client can make   *)
(* on the public geography field: add_population, subtract_population,     *)
(* set_population and close_port.                                          *)
(***************************************************************************)
InitAll ==
    /\ \E closed_ids \in {{}, {0, 1}} :
          LET regs == LoadRegions(BuildRegions(new_healthy(1), new_healthy(0)), closed_ids)
          IN /\ regions = regs
             /\ graph = BuildGraph(regs, RingEdges)
    /\ ongoing_transport = <<>>
    /\ statistics = Statistics(new_healthy(0), calculate_regions_population(regions))
    /\ transport_probability = 2
    /\ debug_assertions \in BOOLEAN
    /\ aborted = FALSE
    /\ InitRegionID
    /\ ret = NoCall

SetPopulationCall(region_id, population) ==
    /\ ~aborted
    /\ LET r == set_population(regions, region_id, population)
       IN /\ regions' = r.regions
          /\ ret' = Returned("set_population", region_id, -1, population, r.ok, NoPop)
    /\ UNCHANGED <<graph, simVars>>

\* The populations a client passes: nobody, or one healthy person.
ClientPopulations == {new_healthy(0), new_healthy(1)}

\* The region ids a client passes: the first region's and an absent one.
ClientRegionIds == {0, 2}

ClientSetPopulation ==
    \E region_id \in ClientRegionIds, population \in ClientPopulations :
        SetPopulationCall(region_id, population)

ClientAddPopulation ==
    \E region_id \in ClientRegionIds, population \in ClientPopulations :
        AddPopulationCall(region_id, population)

ClientSubtractPopulation ==
    \E region_id \in ClientRegionIds, population \in ClientPopulations :
        SubtractPopulationCall(region_id, population)

ClientClosePort == ~aborted /\ ClosePort

NextAll ==
    \/ Update
    \/ ClientAddPopulation
    \/ ClientSubtractPopulation
    \/ ClientSetPopulation
    \/ ClientClosePort

SpecAll == InitAll /\ [][NextAll]_vars

\* C19: if at construction every port in a region's port list is identical
\* (id, capacity, status, region, position) to the graph's port with the
\* same id and the two id sets are equal, this still holds after any sequence
\* of update(), add_population, subtract_population, set_population and
\* close_port calls.
C19_ReferentialInvariant ==
    /\ \A r \in 1..Len(regions) : \A k \in 1..Len(regions[r].ports) :
          /\ in_graph(graph, regions[r].ports[k].id)
          /\ get_port(graph, regions[r].ports[k].id) = regions[r].ports[k]
    /\ \A id \in DOMAIN graph : find_port_in_regions(regions, id) # <<0, 0>>

\* C19's case: after updates that put people in transit and a successful
\* close_port that changed the status of a port loaded closed, while another
\* port is still closed.
C19_Witness ==
    /\ ret.op = "close_port"
    /\ ret.ok
    /\ ~is_closed(get_port(graph, ret.a))
    /\ \E id \in DOMAIN graph : is_closed(get_port(graph, id))
    /\ ongoing_transport # <<>>

(***************************************************************************)
(* Claims about the arrival step of Simulation::update (Spec)              *)
(***************************************************************************)
\* The jobs of a list that have time left, in order, each one tick further.
StillInFlight(jobs) ==
    LET moving == SelectSeq(jobs, LAMBDA j : j.job.time # 0)
    IN [k \in 1..Len(moving) |-> [moving[k] EXCEPT !.job.time = @ - 1]]

\* The jobs of a list that have no time left and end in the region.
ArrivingAt(jobs, region_id) ==
    SelectSeq(jobs, LAMBDA j : j.job.time = 0 /\ j.job.end_region = region_id)

\* The jobs of a list that start in the region.
LeavingFrom(jobs, region_id) ==
    SelectSeq(jobs, LAMBDA j : j.job.start_region = region_id)

\* C20: in every update() that returns, each job that was in flight with
\* remaining time 0 has its population added to its destination region
\* exactly once and is gone from ongoing_transport; every other in-flight job
\* stays, in the same relative order, ahead of the tick's new jobs, with its
\* time lowered by exactly 1 and its population unchanged. (A region ends the
\* tick with what it had, plus its arrivals, minus the tick's departures.)
C20_ArrivalStep ==
    [][(ret'.op = "update" /\ ~aborted') =>
         LET kept == StillInFlight(ongoing_transport)
             new_jobs == SubSeq(ongoing_transport', Len(kept) + 1, Len(ongoing_transport'))
         IN /\ Len(ongoing_transport') >= Len(kept)
            /\ SubSeq(ongoing_transport', 1, Len(kept)) = kept
            /\ \A k \in 1..Len(new_jobs) : new_jobs[k].job.time = new_jobs[k].expected_time
            /\ \A r \in 1..Len(regions) :
                  Add(regions'[r].population,
                      calculate_transit_population(LeavingFrom(new_jobs, regions[r].id)))
                    = Add(regions[r].population,
                          calculate_transit_population(
                              ArrivingAt(ongoing_transport, regions[r].id)))
      ]_vars

(***************************************************************************)
(* Claims about the order of the steps of Simulation::update (SpecAll)     *)
(***************************************************************************)
\* The jobs a returned update() appended: those behind the jobs it kept.
NewJobs(before, after) ==
    SubSeq(after, Len(StillInFlight(before)) + 1, Len(after))

C22_DepartureStep ==
    [][ret'.op = "update" =>
         LET after_arrivals == ProcessJobs(regions, ongoing_transport, 1, <<>>).regions
             new_jobs == NewJobs(ongoing_transport, ongoing_transport')
         IN /\ \A k \in 1..Len(new_jobs) :
                  new_jobs[k].expected_time = new_jobs[k].job.time
            /\ \A r \in 1..Len(regions) :
                  Add(regions'[r].population,
                      calculate_transit_population(LeavingFrom(new_jobs, regions[r].id)))
                    = after_arrivals[r].population
      ]_vars

(***************************************************************************)
(* Claims about the statistics of Simulation (SpecAll)                     *)
(***************************************************************************)
\* The sum of one category over a sequence of populations.
RECURSIVE CategorySum(_, _)
CategorySum(pops, c) ==
    IF pops = <<>> THEN 0 ELSE pops[1][c] + CategorySum(Tail(pops), c)

\* statistics holds, in each category, the sum over the jobs in flight and
\* the sum over the regions.
StatisticsExact ==
    \A c \in Categories :
       /\ statistics.in_transit[c]
            = CategorySum([k \in 1..Len(ongoing_transport) |->
                              ongoing_transport[k].job.population], c)
       /\ statistics.region_population[c]
            = CategorySum([k \in 1..Len(regions) |-> regions[k].population], c)

\* C23: right after Simulation::new and after every update() that returns,
\* statistics.in_transit is the category-wise sum of the populations of the
\* jobs in ongoing_transport and statistics.region_population the
\* category-wise sum of the populations of the regions; right after
\* construction nothing is in flight and in_transit is all zero.
C23_StatisticsExact ==
    /\ (StatisticsExact /\ ongoing_transport = <<>> /\ get_total(statistics.in_transit) = 0)
    /\ [][(ret'.op = "update" /\ ~aborted') => StatisticsExact']_vars

\* C23's case: an update() returned with people in flight.
C23_Witness ==
    /\ ret.op = "update"
    /\ ~aborted
    /\ ongoing_transport # <<>>
    /\ get_total(statistics.in_transit) > 0
    /\ get_total(statistics.region_population) > 0

(***************************************************************************)
(* Claims about the life of a TransportJob (Spec)                          *)
(***************************************************************************)
\* The populations of the jobs of a list that the predicate selects.
PopulationsOf(jobs, Selected(_)) ==
    LET chosen == SelectSeq(jobs, Selected)
    IN [k \in 1..Len(chosen) |-> chosen[k].job.population]

\* C24: a job is created with its whole duration ahead of it, comes one tick
\* closer in every update() while it has time left, keeping its route and
\* its population, and is delivered in the update() that finds it with no
\* time left (tick k + d + 1 for a job of duration d created in tick k): it
\* then leaves ongoing_transport for good and its whole population is in its
\* destination region. No job is dropped early, re-routed or partly delivered.
C24_JobLifeCycle ==
    [][(ret'.op = "update" /\ ~aborted') =>
         LET in_transit == StillInFlight(ongoing_transport)
             created == NewJobs(ongoing_transport, ongoing_transport')
         IN /\ Len(ongoing_transport') >= Len(in_transit)
            /\ \A k \in 1..Len(in_transit) : ongoing_transport'[k] = in_transit[k]
            /\ \A k \in 1..Len(created) :
                  created[k].job.time = created[k].expected_time
            /\ \A r \in 1..Len(regions), c \in Categories :
                  regions'[r].population[c]
                    + CategorySum(PopulationsOf(created,
                                      LAMBDA j : j.job.start_region = regions[r].id), c)
                    = regions[r].population[c]
                        + CategorySum(PopulationsOf(ongoing_transport,
                                          LAMBDA j : /\ j.job.time = 0
                                                     /\ j.job.end_region = regions[r].id), c)
      ]_vars

(***************************************************************************)
(* Further claims about RandomTransportAllocator (SpecAlloc)               *)
(***************************************************************************)
\* C25: calculate_transport returns no job when the probability draw is not
\* below transport_probability (so never a job for transport_probability 0),
\* when there is no candidate destination, or when the drawn magnitude is 0;
\* in every other case it returns exactly one job.
C25_JobOrNone ==
    ret.op = "calculate_transport" =>
       /\ ~aborted
       /\ IF \/ ~(ret.draw.chance < transport_probability)
             \/ ret.candidates = 0
             \/ ret.draw.magnitude = 0
          THEN ~ret.ok /\ ret.jobs = 0
          ELSE ret.ok /\ ret.jobs = 1
       /\ transport_probability = 0 => ~ret.ok

\* C25's case: a call that could have declined by chance, had a candidate
\* and drew a magnitude above 0 returned its one job.
C25_Witness ==
    /\ ret.op = "calculate_transport"
    /\ transport_probability = 1
    /\ ret.draw.chance = 0
    /\ ret.candidates > 0
    /\ ret.draw.magnitude > 0
    /\ ret.ok
    /\ ret.jobs = 1

\* C26: a job of calculate_transport carries the region's whole population
\* when the drawn magnitude m is at least the region's total; when
\* 0 < m < total it carries, in each category, the region's count times
\* m / total rounded to the nearest integer (a half rounds up), not truncated.
C26_WholeOrScaled ==
    (ret.op = "calculate_transport" /\ ret.ok) =>
       LET population == regions[RegionOfPort(regions, ret.a)].population
           total == population.healthy + population.infected
                      + population.dead + population.recovered
           m == ret.draw.magnitude
       IN IF m >= total
          THEN ret.pop = population
          ELSE \A c \in Categories :
                  /\ 2 * m * population[c] - total < 2 * total * ret.pop[c]
                  /\ 2 * total * ret.pop[c] <= 2 * m * population[c] + total

\* C26's case: a scaled job in which rounding to the nearest integer gave
\* more than truncation would have.
C26_Witness ==
    /\ ret.op = "calculate_transport"
    /\ ret.ok
    /\ LET population == regions[RegionOfPort(regions, ret.a)].population
       IN /\ ret.draw.magnitude < get_total(population)
          /\ \E c \in Categories :
                ret.pop[c] * get_total(population) > ret.draw.magnitude * population[c]

\* The port of the regions with the given id.
PortOfId(regs, port_id) ==
    LET r == RegionOfPort(regs, port_id)
    IN regs[r].ports[CHOOSE k \in 1..Len(regs[r].ports) : regs[r].ports[k].id = port_id]

\* C27: the job calculate_transport returns never carries more people than
\* the capacity of its start port, for every region population, capacity and
\* draw.
C27_WithinCapacity ==
    (ret.op = "calculate_transport" /\ ret.ok) =>
       get_total(ret.pop) <= PortOfId(regions, ret.a).capacity

\* The square of the Euclidean distance between the ports with the two ids.
SquaredDistance(regs, id1, id2) ==
    LET p == PortOfId(regs, id1).pos
        q == PortOfId(regs, id2).pos
    IN (p[1] - q[1]) * (p[1] - q[1]) + (p[2] - q[2]) * (p[2] - q[2])

\* C28 as stated: the duration of a job is the Euclidean distance between its
\* start and destination port rounded to the nearest integer.
C28_RoundedDistance ==
    (ret.op = "calculate_transport" /\ ret.ok) =>
       /\ (2 * ret.time - 1) * (2 * ret.time - 1) <= 4 * SquaredDistance(regions, ret.a, ret.b)
       /\ 4 * SquaredDistance(regions, ret.a, ret.b) < (2 * ret.time + 1) * (2 * ret.time + 1)

\* C28 as amended: the duration of a job is the Euclidean distance between
\* its start and destination port with the fraction cut off; it is fixed by
\* the two positions alone, whatever the draws and the region's population.
C28_TruncatedDistance ==
    (ret.op = "calculate_transport" /\ ret.ok) =>
       /\ ret.time * ret.time <= SquaredDistance(regions, ret.a, ret.b)
       /\ SquaredDistance(regions, ret.a, ret.b) < (ret.time + 1) * (ret.time + 1)

\* C28's case: a job between ports about 2.83 apart, which takes 2 ticks.
C28_Witness ==
    /\ ret.op = "calculate_transport"
    /\ ret.ok
    /\ SquaredDistance(regions, ret.a, ret.b) = 8
    /\ ret.time = 2

(***************************************************************************)
(* Claims about Population::new_random (SpecRandom)                        *)
(***************************************************************************)
\* C29: for every size an unsigned integer can hold, 0 and the maximum
\* included, and every sequence of random draws, new_random(size) returns,
\* without an overflow or underflow on the way, a population whose four
\* categories add up to size.
C29_NewRandomTotal ==
    ret.op = "new_random" =>
       /\ ~aborted
       /\ ret.ok
       /\ ret.pop.healthy + ret.pop.dead + ret.pop.infected + ret.pop.recovered = ret.a

(***************************************************************************)
(* Claims about Population::scale and scale_truncate (SpecPop)             *)
(***************************************************************************)
\* C30: for every population and every factor in [0, 1], scale gives in each
\* category the product rounded to the nearest integer (a half rounds up)
\* and scale_truncate the product rounded down; per category
\* scale_truncate <= scale <= scale_truncate + 1; and
\* {healthy: 150, infected: 75, dead: 111, recovered: 2} with factor 0.5
\* gives {75, 38, 56, 1} and {75, 37, 55, 1}.
C30_ScaleAndTruncate ==
    LET self == regions[1].population
        num == ret.a
        den == ret.b
    IN /\ ret.op = "scale" =>
            /\ \A c \in Categories :
                  /\ 2 * num * self[c] - den < 2 * den * ret.pop[c]
                  /\ 2 * den * ret.pop[c] <= 2 * num * self[c] + den
                  /\ scale_truncate(self, num, den)[c] <= ret.pop[c]
                  /\ ret.pop[c] <= scale_truncate(self, num, den)[c] + 1
            /\ (self = Population(150, 75, 111, 2) /\ 2 * num = den)
                  => ret.pop = Population(75, 38, 56, 1)
       /\ ret.op = "scale_truncate" =>
            /\ \A c \in Categories :
                  /\ den * ret.pop[c] <= num * self[c]
                  /\ num * self[c] < den * (ret.pop[c] + 1)
                  /\ ret.pop[c] <= scale(self, num, den)[c]
                  /\ scale(self, num, den)[c] <= ret.pop[c] + 1
            /\ (self = Population(150, 75, 111, 2) /\ 2 * num = den)
                  => ret.pop = Population(75, 37, 55, 1)

\* C30's case: scale halved a population with odd counts, where rounding to
\* the nearest integer and rounding down differ.
C30_Witness ==
    /\ ret.op = "scale"
    /\ 2 * ret.a = ret.b
    /\ regions[1].population = Population(150, 75, 111, 2)
    /\ ret.pop = Population(75, 38, 56, 1)
    /\ ret.pop # scale_truncate(regions[1].population, ret.a, ret.b)

(***************************************************************************)
(* Claims about RegionID (SpecRegionID)                                    *)
(***************************************************************************)
\* C31: every region construction, in any order and from any number of
\* threads, takes its id from the one counter in one atomic step: the id a
\* thread gets differs from every id given out before, to a region that
\* exists or to one another thread is constructing, and is larger than the
\* id of every region that was created before.
C31_RegionIDUnique ==
    [][\A t \in Threads :
          (constructing[t] = -1 /\ constructing'[t] # -1) =>
             /\ \A k \in 1..Len(regions) : regions[k].id < constructing'[t]
             /\ \A u \in Threads \ {t} : constructing[u] # constructing'[t]
      ]_vars

(***************************************************************************)
(* Claims about Region::add_port (SpecRegion)                              *)
(***************************************************************************)
\* C32: add_port appends to the region's port list a new open port whose
\* region field is this region's id and returns a copy equal to the stored
\* port; after any sequence of add_port calls every port of a region's list
\* carries that region's id, get_port(id) finds exactly the ids that were
\* added, and no port is ever removed.
C32_RegionAddPort ==
    [][/\ \A r \in 1..Len(regions) :
            /\ Len(regions'[r].ports) >= Len(regions[r].ports)
            /\ SubSeq(regions'[r].ports, 1, Len(regions[r].ports)) = regions[r].ports
            /\ \A k \in 1..Len(regions'[r].ports) :
                  regions'[r].ports[k].region = regions'[r].id
       /\ ret'.op = "Region::add_port" =>
            /\ Len(regions'[ret'.a].ports) = Len(regions[ret'.a].ports) + 1
            /\ ret'.ports[1] = regions'[ret'.a].ports[Len(regions'[ret'.a].ports)]
            /\ ~is_closed(ret'.ports[1])
            /\ \A r \in 1..Len(regions) : r # ret'.a => regions'[r] = regions[r]
       /\ ret'.op = "Region::get_port" =>
            /\ ret'.ok = (\E k \in 1..Len(regions[ret'.a].ports) :
                             regions[ret'.a].ports[k].id = ret'.b)
            /\ ret'.ok => /\ ret'.ports[1].id = ret'.b
                          /\ ret'.ports[1].region = regions[ret'.a].id
      ]_vars

\* C32's case: the second region has been given two ports and get_port has
\* found the second of them.
C32_Witness ==
    /\ ret.op = "Region::get_port"
    /\ ret.a = 2
    /\ ret.ok
    /\ Len(regions[2].ports) = 2
    /\ ret.ports[1] = regions[2].ports[2]
    /\ regions[2].ports[1].id # regions[2].ports[2].id

(***************************************************************************)
(* Claims about the structure of the geography (SpecAll)                   *)
(***************************************************************************)
\* A port without its open/closed status.
PortShape(port) ==
    [id |-> port.id, capacity |-> port.capacity, region |-> port.region, pos |-> port.pos]

\* The regions with their ports and the graph with its ports and edges,
\* populations and statuses left out.
Structure(g, regs) ==
    [regions |-> [r \in 1..Len(regs) |->
                     [id |-> regs[r].id, name |-> regs[r].name,
                      ports |-> [k \in 1..Len(regs[r].ports) |->
                                    PortShape(regs[r].ports[k])]]],
     graph |-> [id \in DOMAIN g |-> [port |-> PortShape(g[id].port), dests |-> g[id].dests]]]

\* The open/closed status of every port copy of the regions and the graph.
Statuses(g, regs) ==
    [regions |-> [r \in 1..Len(regs) |->
                     [k \in 1..Len(regs[r].ports) |-> is_closed(regs[r].ports[k])]],
     graph |-> [id \in DOMAIN g |-> is_closed(g[id].port)]]

\* C33: update(), add_population, subtract_population, set_population and
\* close_port never add or remove a region, a port or an edge and never
\* change a port's id, capacity, region or position or a region's id or
\* name; update() also leaves every port's open/closed status unchanged.
C33_StructureFrozen ==
    [][/\ Structure(graph', regions') = Structure(graph, regions)
       /\ ret'.op = "update" => Statuses(graph', regions') = Statuses(graph, regions)
      ]_vars

\* C33's case: an update() has returned with people in flight and the first
\* region emptied, in a geography that holds a closed port.
C33_Witness ==
    /\ ret.op = "update"
    /\ ~aborted
    /\ ongoing_transport # <<>>
    /\ get_total(regions[1].population) = 0
    /\ \E id \in DOMAIN graph : is_closed(graph[id].port)

(***************************************************************************)
(* Claims about probabilistic_round (SpecRandom)                           *)
(***************************************************************************)
\* C34: probabilistic_round(x) returns an error when x < 0 or x >=
\* 4294967295 (WordMax here) and otherwise Ok(floor(x)) or Ok(floor(x) + 1);
\* for a whole x, 0 and -0 included, it returns exactly x; the returned
\* value never overflows the word. NaN is neither below 0 nor at or above
\* the bound and has no floor.
C34_ProbabilisticRound ==
    ret.op = "probabilistic_round" =>
        LET x == ret.x
            value == IF x.negative THEN -x.halves ELSE x.halves
            refused == \/ x.class = "inf"
                       \/ x.class = "num" /\ (value < 0 \/ value >= 2 * WordMax)
            floors == IF x.class = "num" THEN {value \div 2, value \div 2 + 1} ELSE {}
        IN  /\ ~ret.overflowed
            /\ refused => ~ret.ok
            /\ ~refused => ret.ok /\ ret.val \in floors
            /\ ~refused /\ x.class = "num" /\ value % 2 = 0 => ret.val = value \div 2

(***************************************************************************)
(* Claims about closed ports and departures (SpecAll)                      *)
(***************************************************************************)
\* C35: after SimulationGeography::close_port(p) returns Ok, no job created
\* by a later update() has end_port = p, so p's region gets no arrivals
\* through p except from jobs already in flight. Stated for the update()
\* that follows the call directly, which is one of the later ones.
C35_NoDepartureToClosedPort ==
    [][(ret.op = "close_port" /\ ret.ok /\ ret'.op = "update" /\ ~aborted') =>
         LET created == NewJobs(ongoing_transport, ongoing_transport')
         IN  \A k \in 1..Len(created) : created[k].job.end_port # ret.a
      ]_vars

(***************************************************************************)
(* Claims about the ends of an allocated job (SpecAlloc)                   *)
(***************************************************************************)
\* C36: every job RandomTransportAllocator::calculate_transport returns has
\* start_port equal to the given start port's id, start_region equal to the
\* given region's id, end_port equal to the id of a port of the candidate
\* list and end_region equal to that candidate's region field; a port
\* outside the candidate list is never chosen.
C36_JobEnds ==
    (ret.op = "calculate_transport" /\ ret.ok) =>
        LET choices == get_open_dest_ports(graph, ret.a)
        IN  /\ ret.job_start = <<ret.a, ret.region>>
            /\ \E k \in 1..Len(choices) :
                   /\ choices[k].id = ret.b
                   /\ choices[k].region = ret.job_end_region

\* C36's case: a job was returned for a port with two candidates, and the
\* candidate picked is the second one and lies in another region than the
\* start port.
C36_Witness ==
    /\ ret.op = "calculate_transport"
    /\ ret.ok
    /\ ret.candidates = 2
    /\ ret.b = get_open_dest_ports(graph, ret.a)[2].id
    /\ ret.job_end_region # ret.region

(***************************************************************************)
(* Claims about the progress of a job in flight (SpecAll)                  *)
(***************************************************************************)
\* C37: for every InProgressJob in ongoing_transport, expected_time is the
\* duration the job had when the allocator created it and never changes,
\* and 0 <= job.time <= expected_time, so that the progress fraction
\* (expected_time - job.time) / expected_time lies in [0, 1]. Every step
\* keeps the jobs still in flight as they were but for one tick less of
\* job.time, and a job appended has expected_time equal to its time.
C37_ExpectedTime ==
    /\ \A k \in 1..Len(ongoing_transport) :
          /\ 0 <= ongoing_transport[k].job.time
          /\ ongoing_transport[k].job.time <= ongoing_transport[k].expected_time
    /\ [][IF ret'.op = "update"
          THEN LET kept == SelectSeq(ongoing_transport, LAMBDA j : j.job.time # 0)
               IN  /\ Len(ongoing_transport') >= Len(kept)
                   /\ \A k \in 1..Len(ongoing_transport') :
                         IF k <= Len(kept)
                         THEN /\ ongoing_transport'[k].expected_time = kept[k].expected_time
                              /\ ongoing_transport'[k].job.time = kept[k].job.time - 1
                         ELSE ongoing_transport'[k].expected_time
                                 = ongoing_transport'[k].job.time
          ELSE ongoing_transport' = ongoing_transport
        ]_vars

\* C37's case: after an update(), a job that has used up its expected time
\* of one tick is in flight together with a job just created.
C37_Witness ==
    /\ ret.op = "update"
    /\ ~aborted
    /\ \E j, k \in 1..Len(ongoing_transport) :
          /\ j < k
          /\ ongoing_transport[j].expected_time = 1
          /\ ongoing_transport[j].job.time = 0
          /\ ongoing_transport[k].expected_time = 1
          /\ ongoing_transport[k].job.time = 1

(***************************************************************************)
(* Claims about the ends of the jobs in flight (SpecAll)                   *)
(***************************************************************************)
\* Whether a region with this id exists and has a port with this id in its
\* port list.
Owns(regs, region_id, port_id) ==
    \E r \in 1..Len(regs) :
        /\ regs[r].id = region_id
        /\ \E k \in 1..Len(regs[r].ports) : regs[r].ports[k].id = port_id

\* C39: in a geography that satisfies the referential invariant, every job
\* in ongoing_transport after any number of update() calls has start_region
\* and end_region that are ids of regions of the geography, start_port
\* owned by start_region, end_port owned by end_region, and start_port ->
\* end_port is an edge of the port graph.
C39_JobsOnEdges ==
    \A k \in 1..Len(ongoing_transport) :
        LET job == ongoing_transport[k].job
        IN  /\ Owns(regions, job.start_region, job.start_port)
            /\ Owns(regions, job.end_region, job.end_port)
            /\ in_graph(graph, job.start_port)
            /\ \E d \in 1..Len(graph[job.start_port].dests) :
                   graph[job.start_port].dests[d] = job.end_port

\* C39's case: after two update() calls or more, a job between two regions
\* and a job inside one region are in flight.
C39_Witness ==
    /\ ret.op = "update"
    /\ ~aborted
    /\ ret.delivered_to # {}
    /\ \E j, k \in 1..Len(ongoing_transport) :
          /\ ongoing_transport[j].job.start_region # ongoing_transport[j].job.end_region
          /\ ongoing_transport[k].job.start_region = ongoing_transport[k].job.end_region

(***************************************************************************)
(* Claims about addition and emigrate (SpecWord)                           *)
(***************************************************************************)
\* C40: addition and emigrate are inverse on populations: for p and q whose
\* category sums fit in 32 bits, (p + q).emigrate(q) = Ok(p); whenever
\* p.emigrate(q) = Ok(r), r + q = p and r.get_total() + q.get_total() =
\* p.get_total(); and get_alive() equals get_total() minus dead for every
\* population. A get_total() that overflows returns no total, or not the
\* total.
C40_AddEmigrateInverse ==
    LET p == regions[1].population
        q == ret.arg
        r == ret.pop
    IN  /\ (ret.op = "add" /\ ret.ok) => emigrate(r, q) = Ok(p)
        /\ (ret.op = "emigrate" /\ ret.ok) =>
              /\ ~AddWord(r, q).overflowed
              /\ AddWord(r, q).pop = p
              /\ ~get_total_word(p).overflowed
              /\ get_total_word(r).val + get_total_word(q).val = get_total_word(p).val
        /\ ret.op = "get_alive" =>
              /\ ret.ok
              /\ ~get_total_word(p).overflowed
              /\ ret.val = get_total_word(p).val - p.dead

====
